---- MODULE Spec2Model ----
(***************************************************************************)
(* devcontext: projects, sessions, captures and notes kept in one SQLite   *)
(* store (db/database.py), driven by the CLI commands (cli.py) and the MCP *)
(* tool handlers (integrations/mcp_server.py).                             *)
(*                                                                         *)
(* Three specifications share the store operators:                        *)
(*   StoreSpec  the Database methods called directly, one call per step;   *)
(*   SeqSpec    command invocations run one at a time;                     *)
(*   Spec       command invocations of several OS processes, interleaved   *)
(*              at the granularity of one SQL statement / clock read.      *)
(***************************************************************************)
EXTENDS Integers, Sequences, FiniteSets, TLC

VARIABLES db, clock, gitRoots, ret, pc, loc, txn, writer, pre, begun

vars == <<db, clock, gitRoots, ret, pc, loc, txn, writer, pre, begun>>

----------------------------------------------------------------------------
(* Bounds of the model. *)

MaxProjects == 2
MaxSessions == 2
MaxCaptures == 2
MaxNotes == 1
MaxClock == 3
MaxDepth == 1
MaxRows == 4
NumProcs == 2
MaxInvocations == 3

----------------------------------------------------------------------------
(* Values. *)

\* SQL NULL in the TEXT columns ended_at; timestamps are the positive ticks.
NULL == 0

\* A text is a sequence of string pieces (concatenation is \o); the NULL of
\* the summary column is a value no text equals.
NullText == <<"<NULL>">>

EmptyText == <<>>

\* The directory tree: one chain of nested directories below the root.
SegName(i) == IF i % 2 = 1 THEN "demo" ELSE "src"

Dir(k) == [i \in 1..k |-> SegName(i)]

Dirs == {Dir(k) : k \in 0..MaxDepth}

\* Path.name: the last component, "" for the root.
PathName(path) == IF Len(path) = 0 THEN "" ELSE path[Len(path)]

\* variant: the ancestors from the root downwards
ParentsFromRoot(path) == [i \in 1..Len(path) |-> SubSeq(path, 1, i - 1)]

\* Path.parents: the ancestors of a path, closest first.
Parents(path) == [i \in 1..Len(path) |-> SubSeq(path, 1, Len(path) - i)]

\* init --name: given for the root directory, whose own name is empty.
GivenNames == {"api"}

NameChoices(path) == IF PathName(path) = "" THEN GivenNames \cup {""} ELSE {""}

NoteTexts == {"", "fixed bug"}

Procs == 1..NumProcs

EmptyDb == [projects |-> <<>>, sessions |-> <<>>, captures |-> <<>>, notes |-> <<>>]

Range(s) == {s[i] : i \in DOMAIN s}

----------------------------------------------------------------------------
(* db/database.py: the statements and the queries, as functions of a       *)
(* database image d.                                                       *)

\* UNIQUE constraint of projects.path (schema, line 40).
PathTracked(d, path) == \E i \in DOMAIN d.projects : d.projects[i].path = path

\* variant: the schema without UNIQUE on projects.path
InsertProjectNeverFails(d, name, path) == FALSE

\* variant: the schema with UNIQUE on projects.name instead of projects.path
InsertProjectUniqueName(d, name, path) ==
    \E i \in DOMAIN d.projects : d.projects[i].name = name

\* INSERT INTO projects: the statement fails (sqlite3.IntegrityError) when the
\* path is already there.
InsertProjectFails(d, name, path) == PathTracked(d, path)

InsertProject(d, name, path, now) ==
    [d EXCEPT !.projects = Append(@, [id |-> Len(@) + 1, name |-> name, path |-> path,
                                      created_at |-> now, last_active |-> now])]

\* variant: the lookup matches every path that starts with the given one
GetProjectBelowPath(d, path) ==
    {r \in Range(d.projects) : Len(r.path) >= Len(path) /\ SubSeq(r.path, 1, Len(path)) = path}

\* get_project_by_path: the row with this path, as a set (empty: None).
GetProjectByPath(d, path) == {d.projects[i] : i \in {j \in DOMAIN d.projects : d.projects[j].path = path}}

\* INSERT INTO sessions (project_id, started_at): ended_at and summary NULL.
InsertSession(d, project_id, now) ==
    [d EXCEPT !.sessions = Append(@, [id |-> Len(@) + 1, project_id |-> project_id,
                                      started_at |-> now, ended_at |-> NULL,
                                      summary |-> NullText])]

\* UPDATE projects SET last_active = ? WHERE id = ?
UpdateLastActive(d, project_id, now) ==
    [d EXCEPT !.projects = [i \in DOMAIN @ |->
        IF @[i].id = project_id THEN [@[i] EXCEPT !.last_active = now] ELSE @[i]]]

\* variant: the query without its ended_at IS NULL condition
ActiveSessionsAny(d, project_id) ==
    {d.sessions[i] : i \in {j \in DOMAIN d.sessions : d.sessions[j].project_id = project_id}}

\* get_active_session: the rows WHERE project_id = ? AND ended_at IS NULL;
\* fetchone() takes one of them, an empty set is None.
ActiveSessions(d, project_id) ==
    {d.sessions[i] : i \in {j \in DOMAIN d.sessions :
        d.sessions[j].project_id = project_id /\ d.sessions[j].ended_at = NULL}}

\* variant: the UPDATE that sets ended_at only
UpdateSessionEndNoSummary(d, session_id, now, summary) ==
    [d EXCEPT !.sessions = [i \in DOMAIN @ |->
        IF @[i].id = session_id THEN [@[i] EXCEPT !.ended_at = now] ELSE @[i]]]

\* UPDATE sessions SET ended_at = ?, summary = ? WHERE id = ?
UpdateSessionEnd(d, session_id, now, summary) ==
    [d EXCEPT !.sessions = [i \in DOMAIN @ |->
        IF @[i].id = session_id
        THEN [@[i] EXCEPT !.ended_at = now, !.summary = summary]
        ELSE @[i]]]

\* variant: INSERT OR REPLACE keyed by the session
InsertCaptureReplace(d, session_id, capture_type, content, metadata, now) ==
    LET row(i) == [id |-> i, session_id |-> session_id, capture_type |-> capture_type,
                   content |-> content, metadata |-> metadata, timestamp |-> now]
        old == {i \in DOMAIN d.captures : d.captures[i].session_id = session_id}
    IN IF old = {} THEN [d EXCEPT !.captures = Append(@, row(Len(@) + 1))]
       ELSE LET i == CHOOSE j \in old : TRUE
            IN [d EXCEPT !.captures[i] = row(i)]

\* INSERT INTO captures
InsertCapture(d, session_id, capture_type, content, metadata, now) ==
    [d EXCEPT !.captures = Append(@, [id |-> Len(@) + 1, session_id |-> session_id,
                                      capture_type |-> capture_type, content |-> content,
                                      metadata |-> metadata, timestamp |-> now])]

\* variant: the note goes to the oldest session of the table
InsertNoteFirstSession(d, session_id, content, now) ==
    [d EXCEPT !.notes = Append(@, [id |-> Len(@) + 1, session_id |-> 1,
                                   content |-> content, timestamp |-> now])]

\* INSERT INTO notes
InsertNote(d, session_id, content, now) ==
    [d EXCEPT !.notes = Append(@, [id |-> Len(@) + 1, session_id |-> session_id,
                                   content |-> content, timestamp |-> now])]

\* variant: a connection that commits in the finally branch
ConnectionExitAlwaysCommit(committed, working, ok) == working

\* _connection: commit when the body ran through, close without commit (the
\* open transaction is rolled back) when it raised.
ConnectionExit(committed, working, ok) == IF ok THEN working ELSE committed

\* create_session's transaction body: both statements on one connection.
CreateSessionBody(d, project_id, now) ==
    UpdateLastActive(InsertSession(d, project_id, now), project_id, now)

\* The rows of a table that belong to one session, ORDER BY timestamp (rows of
\* equal timestamp in insertion order).
RECURSIVE SortedByTimestamp(_)
SortedByTimestamp(rows) ==
    IF rows = {} THEN <<>>
    ELSE LET first == CHOOSE r \in rows : \A o \in rows :
                          r.timestamp < o.timestamp
                          \/ (r.timestamp = o.timestamp /\ r.id <= o.id)
         IN <<first>> \o SortedByTimestamp(rows \ {first})

\* variant: no WHERE clause, the notes of every session
GetSessionNotesAll(d, session_id) == SortedByTimestamp(Range(d.notes))

\* get_session_notes
GetSessionNotes(d, session_id) ==
    SortedByTimestamp({n \in Range(d.notes) : n.session_id = session_id})

\* get_session_captures
GetSessionCaptures(d, session_id) ==
    SortedByTimestamp({c \in Range(d.captures) : c.session_id = session_id})

Contents(rows) == [i \in DOMAIN rows |-> rows[i].content]

\* list_projects: ORDER BY last_active DESC (equal ones in insertion order)
RECURSIVE ByLastActiveDesc(_)
ByLastActiveDesc(rows) ==
    IF rows = {} THEN <<>>
    ELSE LET first == CHOOSE r \in rows : \A o \in rows :
                          r.last_active > o.last_active
                          \/ (r.last_active = o.last_active /\ r.id <= o.id)
         IN <<first>> \o ByLastActiveDesc(rows \ {first})

\* variant: only the projects that have a session
ListProjectsWithSessions(d) ==
    ByLastActiveDesc({r \in Range(d.projects) :
                         \E i \in DOMAIN d.sessions : d.sessions[i].project_id = r.id})

\* list_projects: SELECT ... FROM projects ORDER BY last_active DESC
ListProjects(d) == ByLastActiveDesc(Range(d.projects))

\* get_recent_sessions: ORDER BY started_at DESC LIMIT ?
RECURSIVE ByStartedAtDesc(_)
ByStartedAtDesc(rows) ==
    IF rows = {} THEN <<>>
    ELSE LET first == CHOOSE r \in rows : \A o \in rows :
                          r.started_at > o.started_at
                          \/ (r.started_at = o.started_at /\ r.id <= o.id)
         IN <<first>> \o ByStartedAtDesc(rows \ {first})

GetRecentSessions(d, project_id, limit) ==
    LET all == ByStartedAtDesc({s \in Range(d.sessions) : s.project_id = project_id})
    IN SubSeq(all, 1, IF Len(all) < limit THEN Len(all) ELSE limit)

\* get_last_session: WHERE ended_at IS NOT NULL ORDER BY ended_at DESC LIMIT 1;
\* the set of the rows that can be the first one (empty: None).
GetLastSession(d, project_id) ==
    LET ended == {s \in Range(d.sessions) :
                     s.project_id = project_id /\ s.ended_at # NULL}
    IN {s \in ended : \A o \in ended : o.ended_at <= s.ended_at}

RECURSIVE ByTimestampAsc(_)
ByTimestampAsc(rows) ==
    IF rows = {} THEN <<>>
    ELSE LET first == CHOOSE r \in rows : \A o \in rows :
                          r.timestamp < o.timestamp
                          \/ (r.timestamp = o.timestamp /\ r.id <= o.id)
         IN <<first>> \o ByTimestampAsc(rows \ {first})

RECURSIVE ByTimestampDesc(_)
ByTimestampDesc(rows) ==
    IF rows = {} THEN <<>>
    ELSE LET first == CHOOSE r \in rows : \A o \in rows :
                          r.timestamp > o.timestamp
                          \/ (r.timestamp = o.timestamp /\ r.id <= o.id)
         IN <<first>> \o ByTimestampDesc(rows \ {first})

\* the notes of the sessions of a project (notes n JOIN sessions s)
ProjectNotes(d, project_id) ==
    {n \in Range(d.notes) :
        \E s \in Range(d.sessions) : s.id = n.session_id /\ s.project_id = project_id}

\* variant: ORDER BY n.timestamp without DESC
GetRecentNotesOldest(d, project_id, limit) ==
    LET all == ByTimestampAsc(ProjectNotes(d, project_id))
    IN SubSeq(all, 1, IF Len(all) < limit THEN Len(all) ELSE limit)

\* get_recent_notes: ORDER BY n.timestamp DESC LIMIT ?
GetRecentNotes(d, project_id, limit) ==
    LET all == ByTimestampDesc(ProjectNotes(d, project_id))
    IN SubSeq(all, 1, IF Len(all) < limit THEN Len(all) ELSE limit)

\* get_recent_notes: the notes of the sessions of a project, how many of them
\* (at most limit)
CountRecentNotes(d, project_id, limit) ==
    LET n == Cardinality({i \in DOMAIN d.notes :
                 \E s \in Range(d.sessions) :
                     s.id = d.notes[i].session_id /\ s.project_id = project_id})
    IN IF n < limit THEN n ELSE limit

----------------------------------------------------------------------------
(* capture/git_capture.py: the version-control reader.  gitRoots are the   *)
(* directories that hold a repository; every repository of the model has   *)
(* the same branch, history and working tree.                              *)

LimitDefault == 10

RepoBranch == "main"

\* The history from HEAD, newest first; date is the authored time in ticks.
RepoHistory == <<[sha |-> "b2c3d4e", message |-> "add parser", date |-> 1]>>

RepoModified == <<"app.py">>

RepoStaged == <<>>

RepoUntracked == <<>>

\* Repo(path, search_parent_directories=True) finds a repository at the
\* path or at any ancestor.
IsGitRepo(path) == path \in gitRoots \/ \E i \in DOMAIN Parents(path) : Parents(path)[i] \in gitRoots

\* variant: the test is <= , the commit authored at `since` is left out
RECURSIVE TakeSinceStrict(_, _)
TakeSinceStrict(history, since) ==
    IF history = <<>> THEN <<>>
    ELSE IF since # NULL /\ Head(history).date <= since THEN <<>>
    ELSE <<Head(history)>> \o TakeSinceStrict(Tail(history), since)

\* get_recent_commits: iterate at most `limit` commits, stop at the first one
\* authored before `since` (NULL: no since).
RECURSIVE TakeSince(_, _)
TakeSince(history, since) ==
    IF history = <<>> THEN <<>>
    ELSE IF since # NULL /\ Head(history).date < since THEN <<>>
    ELSE <<Head(history)>> \o TakeSince(Tail(history), since)

FirstN(s, n) == SubSeq(s, 1, IF Len(s) < n THEN Len(s) ELSE n)

\* get_recent_commits on a given history.  fail_at = k > 0: reading the
\* k-th commit of the iteration raises; `except Exception: pass` then
\* returns the commits appended so far.  fail_at = 0: nothing raises.
RecentCommitsOf(history, limit, since, fail_at) ==
    LET read == FirstN(history, limit)
    IN IF fail_at = 0 THEN TakeSince(read, since)
       ELSE TakeSince(FirstN(read, fail_at - 1), since)

GetRecentCommits(limit, since) == RecentCommitsOf(RepoHistory, limit, since, 0)

\* variant: the snapshot is never taken
CaptureNone(path, since) == {}

\* GitCapture.capture in a repository with a given history
CaptureOf(history, since, fail_at) ==
    [branch |-> RepoBranch,
     recent_commits |-> RecentCommitsOf(history, LimitDefault, since, fail_at),
     modified_files |-> RepoModified,
     staged_files |-> RepoStaged,
     untracked_files |-> RepoUntracked,
     has_uncommitted_changes |-> (RepoModified # <<>> \/ RepoStaged # <<>>
                                  \/ RepoUntracked # <<>>)]

\* GitCapture.capture: None (the empty set) outside a repository.
Capture(path, since) ==
    IF ~IsGitRepo(path) THEN {}
    ELSE {CaptureOf(RepoHistory, since, 0)}

RECURSIVE Bullets(_)
Bullets(items) ==
    IF items = <<>> THEN <<>> ELSE <<"\n  - ", Head(items)>> \o Bullets(Tail(items))

Messages(commits) == [i \in DOMAIN commits |-> commits[i].message]

\* GitContext.to_summary
ToSummary(ctx) ==
    <<"Branch: ", ctx.branch>>
    \o (IF ctx.recent_commits # <<>>
        THEN <<"\n\nRecent commits (", ToString(Len(ctx.recent_commits)), "):">>
             \o Bullets(Messages(FirstN(ctx.recent_commits, 5)))
        ELSE <<>>)
    \o (IF ctx.modified_files # <<>>
        THEN <<"\n\nModified files (", ToString(Len(ctx.modified_files)), "):">>
             \o Bullets(FirstN(ctx.modified_files, 10))
             \o (IF Len(ctx.modified_files) > 10
                 THEN <<"\n  ... and ", ToString(Len(ctx.modified_files) - 10), " more">>
                 ELSE <<>>)
        ELSE <<>>)
    \o (IF ctx.staged_files # <<>>
        THEN <<"\n\nStaged files (", ToString(Len(ctx.staged_files)), "):">>
             \o Bullets(FirstN(ctx.staged_files, 5))
        ELSE <<>>)
    \o (IF ctx.has_uncommitted_changes
        THEN <<"\n\n!  Uncommitted changes present">>
        ELSE <<>>)

\* a commit dict as a JSON object: its members, key and value
JsonOfCommit(c) == <<<<"sha", c.sha>>, <<"message", c.message>>, <<"date", c.date>>>>

\* variant: the untracked files are left out of the JSON object
ToJsonNoUntracked(ctx) ==
    [json |-> <<<<"branch", ctx.branch>>,
                <<"recent_commits", [i \in DOMAIN ctx.recent_commits |->
                                        JsonOfCommit(ctx.recent_commits[i])]>>,
                <<"modified_files", ctx.modified_files>>,
                <<"staged_files", ctx.staged_files>>,
                <<"untracked_files", <<>>>>,
                <<"has_uncommitted_changes", ctx.has_uncommitted_changes>>>>]

\* GitContext.to_json: json.dumps of a dict of six members, key and value.
ToJson(ctx) ==
    [json |-> <<<<"branch", ctx.branch>>,
                <<"recent_commits", [i \in DOMAIN ctx.recent_commits |->
                                        JsonOfCommit(ctx.recent_commits[i])]>>,
                <<"modified_files", ctx.modified_files>>,
                <<"staged_files", ctx.staged_files>>,
                <<"untracked_files", ctx.untracked_files>>,
                <<"has_uncommitted_changes", ctx.has_uncommitted_changes>>>>]

\* the value of a member of a JSON object (json.loads, then d[key])
Member(object, key) ==
    LET i == CHOOSE j \in DOMAIN object : object[j][1] = key IN object[i][2]

\* GitContext(**json.loads(text)): the dataclass built from the members
\* named as its fields
FromJson(text) ==
    [branch |-> Member(text.json, "branch"),
     recent_commits |->
        [i \in DOMAIN Member(text.json, "recent_commits") |->
            [sha |-> Member(Member(text.json, "recent_commits")[i], "sha"),
             message |-> Member(Member(text.json, "recent_commits")[i], "message"),
             date |-> Member(Member(text.json, "recent_commits")[i], "date")]],
     modified_files |-> Member(text.json, "modified_files"),
     staged_files |-> Member(text.json, "staged_files"),
     untracked_files |-> Member(text.json, "untracked_files"),
     has_uncommitted_changes |-> Member(text.json, "has_uncommitted_changes")]

----------------------------------------------------------------------------
(* summary/ollama.py and utils/formatting.py                               *)

\* The answers the generative backend gives in the model, after strip().
BackendResponses == {<<"Worked on the parser.">>, EmptyText}

\* summary of a call that never reached the summarizer
NotInvoked == <<"<not invoked>">>

\* The pieces of text of the model in which the word "commits" occurs: the
\* commit heading of to_summary, and a branch name.
CommitsPieces == {"\n\nRecent commits (", "fix-commits"}

\* "commits" in text.lower(): a substring test on the whole text.
HasCommitsWord(text) == \E i \in DOMAIN text : text[i] \in CommitsPieces

RECURSIVE JoinWith(_, _)
JoinWith(sep, items) ==
    IF items = <<>> THEN <<>>
    ELSE IF Len(items) = 1 THEN <<Head(items)>>
    ELSE <<Head(items), sep>> \o JoinWith(sep, Tail(items))

\* OllamaSummarizer._fallback_summary
FallbackSummary(git_context, notes, captures, project_name) ==
    <<"Session on ", project_name>>
    \o (IF notes # <<>> THEN <<"\nNotes: ">> \o JoinWith("; ", FirstN(notes, 3)) ELSE <<>>)
    \o (IF HasCommitsWord(git_context) THEN <<"\nGit activity recorded.">> ELSE <<>>)

\* The backend at a call of summarize_session: the ollama library is not
\* installed (client is None), client.list() raises (not running),
\* client.generate() raises after the availability check passed, or
\* generate answers.
Backends == {"missing", "down", "raises", "answers"}

\* variant: no except clause around client.generate; the caller gets None
SummarizeWithNoCatch(backend, response, git_context, notes, captures, project_name) ==
    IF backend \in {"missing", "down"}
    THEN FallbackSummary(git_context, notes, captures, project_name)
    ELSE IF backend = "raises" THEN NullText
    ELSE response

\* OllamaSummarizer.summarize_session with the backend in a given condition;
\* response is the stripped text of the backend's answer.
SummarizeWith(backend, response, git_context, notes, captures, project_name) ==
    IF backend \in {"missing", "down"}
    THEN FallbackSummary(git_context, notes, captures, project_name)
    ELSE IF backend = "raises"
    THEN FallbackSummary(git_context, notes, captures, project_name)
    ELSE response

\* OllamaSummarizer.summarize_session: the texts it can return.
SummarizeSession(git_context, notes, captures, project_name) ==
    {SummarizeWith(backend, response, git_context, notes, captures, project_name) :
        backend \in Backends, response \in BackendResponses}

\* format_duration, one tick of the clock being one second.
FormatDuration(start, end) ==
    LET total_seconds == end - start
    IN IF total_seconds < 60 THEN <<ToString(total_seconds), "s">>
       ELSE IF total_seconds < 3600 THEN <<ToString(total_seconds \div 60), "m">>
       ELSE IF (total_seconds % 3600) \div 60 # 0
            THEN <<ToString(total_seconds \div 3600), "h ",
                   ToString((total_seconds % 3600) \div 60), "m">>
            ELSE <<ToString(total_seconds \div 3600), "h">>

----------------------------------------------------------------------------
(* State.                                                                  *)
(*   db        the committed database image                                *)
(*   clock     datetime.now(), in ticks                                    *)
(*   gitRoots  the directories holding a repository (never changes)        *)
(*   ret       StoreSpec: the last Database call and its outcome;          *)
(*             OpenedSpec: where the open session was started from;       *)
(*             McpSpec: the request loop (line read, req_id, responses)    *)
(*   pc, loc   per invocation: its position and its local variables        *)
(*   txn       the working image of the connection holding the write lock  *)
(*   writer    the invocation holding the write lock, 0 when free          *)
(*   pre       SeqSpec: the database image when the invocation began       *)
(*   begun     Spec: the number of invocations begun so far (McpSpec: the  *)
(*             lines read)                                                 *)

\* datetime.now(): a reading returns the clock, and the clock moves on by one
\* tick after it until it reaches MaxClock; from then on readings are equal.
Tick(t) == IF t < MaxClock THEN t + 1 ELSE t

NoRet == [op |-> "none", arg |-> <<>>, outcome |-> "none"]

IdleLoc ==
    [cmd |-> "none", fe |-> "none", path |-> <<>>, name |-> "", text |-> "",
     cur |-> 0, project |-> {}, is_child |-> FALSE, session |-> {}, now |-> NULL,
     ctx |-> {}, git_context |-> EmptyText, notes |-> <<>>, captures |-> <<>>,
     summary |-> NotInvoked, backend |-> "none",
     result |-> [kind |-> "none", duration |-> EmptyText, err |-> "", at |-> ""]]

GitChoices == {{}, {Dir(1)}}

Init ==
    /\ db = EmptyDb
    /\ clock = 1
    /\ gitRoots \in GitChoices
    /\ ret = NoRet
    /\ pc = [p \in Procs |-> "idle"]
    /\ loc = [p \in Procs |-> IdleLoc]
    /\ txn = EmptyDb
    /\ writer = 0
    /\ pre = EmptyDb
    /\ begun = 0

----------------------------------------------------------------------------
(* StoreSpec: the Database methods, each one call in one step.  io_ok is   *)
(* FALSE when the storage fails under the call (sqlite3.OperationalError). *)
(* The calls name rows that exist; the tables hold MaxRows rows in all.    *)

SummaryArgs == {NullText, <<"Test summary">>}

StoreCtx == [branch |-> RepoBranch, recent_commits |-> RepoHistory,
             modified_files |-> RepoModified, staged_files |-> RepoStaged,
             untracked_files |-> RepoUntracked, has_uncommitted_changes |-> TRUE]

Rows(d) == Len(d.projects) + Len(d.sessions) + Len(d.captures) + Len(d.notes)

Outcome(io_ok) == IF io_ok THEN "ok" ELSE "StorageError"

StoreUnchanged == UNCHANGED <<gitRoots, pc, loc, txn, writer, pre, begun>>

\* Database.create_project
StoreCreateProject(name, path, io_ok) ==
    LET fails == InsertProjectFails(db, name, path)
        working == IF fails THEN db ELSE InsertProject(db, name, path, clock)
    IN /\ fails \/ ~io_ok \/ (Len(db.projects) < MaxProjects /\ Rows(db) < MaxRows)
       /\ clock' = Tick(clock)
       /\ db' = ConnectionExit(db, working, io_ok /\ ~fails)
       /\ ret' = [op |-> "create_project", arg |-> path,
                  outcome |-> IF io_ok /\ fails THEN "IntegrityError" ELSE Outcome(io_ok)]
       /\ StoreUnchanged

\* Database.create_session
StoreCreateSession(project_id, io_ok) ==
    /\ ~io_ok \/ (Len(db.sessions) < MaxSessions /\ Rows(db) < MaxRows)
    /\ clock' = Tick(clock)
    /\ db' = ConnectionExit(db, CreateSessionBody(db, project_id, clock), io_ok)
    /\ ret' = [op |-> "create_session", arg |-> <<project_id>>, outcome |-> Outcome(io_ok)]
    /\ StoreUnchanged

\* Database.end_session
StoreEndSession(session_id, summary, io_ok) ==
    /\ clock' = Tick(clock)
    /\ db' = ConnectionExit(db, UpdateSessionEnd(db, session_id, clock, summary), io_ok)
    /\ ret' = [op |-> "end_session", arg |-> <<session_id>>, outcome |-> Outcome(io_ok)]
    /\ StoreUnchanged

\* Database.add_capture
StoreAddCapture(session_id, capture_type, io_ok) ==
    /\ ~io_ok \/ (Len(db.captures) < MaxCaptures /\ Rows(db) < MaxRows)
    /\ clock' = Tick(clock)
    /\ db' = ConnectionExit(db, InsertCapture(db, session_id, capture_type,
                                 ToSummary(StoreCtx), ToJson(StoreCtx), clock), io_ok)
    /\ ret' = [op |-> "add_capture", arg |-> <<session_id>>, outcome |-> Outcome(io_ok)]
    /\ StoreUnchanged

\* Database.add_note
StoreAddNote(session_id, content, io_ok) ==
    /\ ~io_ok \/ (Len(db.notes) < MaxNotes /\ Rows(db) < MaxRows)
    /\ clock' = Tick(clock)
    /\ db' = ConnectionExit(db, InsertNote(db, session_id, content, clock), io_ok)
    /\ ret' = [op |-> "add_note", arg |-> <<session_id>>, outcome |-> Outcome(io_ok)]
    /\ StoreUnchanged

StoreNext ==
    \/ \E path \in Dirs, name \in GivenNames \cup {"demo"}, io_ok \in BOOLEAN :
           StoreCreateProject(name, path, io_ok)
    \/ \E project_id \in 1..Len(db.projects), io_ok \in BOOLEAN :
           StoreCreateSession(project_id, io_ok)
    \/ \E session_id \in 1..Len(db.sessions), summary \in SummaryArgs, io_ok \in BOOLEAN :
           StoreEndSession(session_id, summary, io_ok)
    \/ \E session_id \in 1..Len(db.sessions), capture_type \in {"git_start", "git_end"},
          io_ok \in BOOLEAN :
           StoreAddCapture(session_id, capture_type, io_ok)
    \/ \E session_id \in 1..Len(db.sessions), content \in NoteTexts, io_ok \in BOOLEAN :
           StoreAddNote(session_id, content, io_ok)

StoreInit == Init /\ gitRoots = {}

StoreSpec == StoreInit /\ [][StoreNext]_vars

----------------------------------------------------------------------------
(* Invocations: cli.py commands and mcp_server.py tool handlers.  An       *)
(* invocation p is at pc[p] with the locals loc[p]; one step is one        *)
(* database statement (or one whole single-statement transaction) or one   *)
(* reading of the clock, with the local computation that follows it.       *)

Cmds == {"init", "start", "end", "note", "summary", "status", "resume", "history", "list"}

\* the commands that only report
ReportCmds == {"status", "resume", "history", "list"}

\* history --limit and the limit resume gives get_recent_notes
HistoryLimit == 5

FrontEnds == {"cli", "mcp"}

\* The callers of an interleaved run: terminals running the CLI (odd p) and
\* MCP servers (even p).
FrontEndOf(p) == IF p % 2 = 1 THEN "cli" ELSE "mcp"

L(p) == loc[p]

At(p, label) == pc[p] = label

Goto(p, label, locals) ==
    /\ pc' = [pc EXCEPT ![p] = label]
    /\ loc' = [loc EXCEPT ![p] = locals]

\* The invocation returns to its caller with an outcome.
Finish(p, locals, kind, duration) ==
    Goto(p, "done", [locals EXCEPT !.result =
        [kind |-> kind, duration |-> duration, err |-> "", at |-> ""]])

\* An exception leaves the handler (at: the statement that raised): the CLI
\* process dies with a traceback, call_tool turns it into {"error": str(e)}.
Raise(p, locals, err) ==
    Goto(p, "done", [locals EXCEPT !.result =
        [kind |-> IF locals.fe = "cli" THEN "crash" ELSE "error",
         duration |-> EmptyText, err |-> err, at |-> pc[p]]])

\* str.strip() on the note texts of the model
Strip(text) == IF text = " " THEN "" ELSE text

TheProject(p) == CHOOSE r \in L(p).project : TRUE

TheSession(p) == CHOOSE r \in L(p).session : TRUE

\* The directory the handler gives to GitCapture: the CLI start and end
\* commands use the working directory, every other handler the project path.
GitDir(p) ==
    IF L(p).fe = "cli" /\ L(p).cmd \in {"start", "end"} THEN L(p).path
    ELSE TheProject(p).path

\* A command is invoked: front end, working directory (or path argument) and
\* arguments.  _handle_note rejects an empty note before anything else.
Begin(p, cmd, fe, path, name, text, sequential) ==
    /\ At(p, "idle")
    /\ sequential \/ (begun < MaxInvocations /\ fe = FrontEndOf(p))
    /\ begun' = IF sequential THEN begun ELSE begun + 1
    /\ cmd \in {"init", "history"} \/ name = ""
    /\ cmd = "note" \/ text = ""
    /\ cmd \in {"history", "list"} => fe = "cli"
    /\ LET locals == [IdleLoc EXCEPT !.cmd = cmd, !.fe = fe, !.path = path,
                                     !.name = name, !.text = text]
       IN IF cmd = "note" /\ fe = "mcp" /\ Strip(text) = ""
          THEN Finish(p, locals, "note_text_required", EmptyText)
          ELSE Goto(p, IF cmd = "init" THEN "init_check"
                       ELSE IF cmd = "list" THEN "report"
                       ELSE IF cmd = "history" /\ name # "" THEN "lookup"
                       ELSE "resolve", locals)
    /\ UNCHANGED <<db, clock, gitRoots, ret, txn, writer, pre>>

\* init / _handle_init: existing = db.get_project_by_path(str(cwd))
InitCheck(p) ==
    /\ At(p, "init_check")
    /\ IF GetProjectByPath(db, L(p).path) # {}
       THEN Finish(p, [L(p) EXCEPT !.project = GetProjectByPath(db, L(p).path)],
                   "already_tracked", EmptyText)
       ELSE Goto(p, "cp_now", L(p))
    /\ UNCHANGED <<db, clock, gitRoots, ret, begun, txn, writer, pre>>

\* create_project: now = datetime.now().isoformat()
CreateProjectNow(p) ==
    /\ At(p, "cp_now")
    /\ Goto(p, "cp_insert", [L(p) EXCEPT !.now = clock])
    /\ clock' = Tick(clock)
    /\ UNCHANGED <<db, gitRoots, ret, begun, txn, writer, pre>>

\* create_project: the INSERT and the commit; project_name = name or cwd.name
CreateProject(p, io_ok) ==
    /\ At(p, "cp_insert")
    /\ LET name == IF L(p).name # "" THEN L(p).name ELSE PathName(L(p).path)
           fails == InsertProjectFails(db, name, L(p).path)
           working == IF fails THEN db ELSE InsertProject(db, name, L(p).path, L(p).now)
           ok == io_ok /\ ~fails /\ writer = 0
       IN /\ ok => (Len(db.projects) < MaxProjects /\ Rows(db) < MaxRows)
          /\ db' = ConnectionExit(db, working, ok)
          /\ IF ok THEN Finish(p, L(p), "initialized", EmptyText)
             ELSE Raise(p, L(p), IF io_ok /\ writer = 0 THEN "IntegrityError"
                                 ELSE "StorageError")
    /\ UNCHANGED <<clock, gitRoots, ret, begun, txn, writer, pre>>

\* find_project_root: one get_project_by_path per step, the path itself
\* first (cur = 0), then its parents, closest first.
Resolve(p) ==
    /\ At(p, "resolve")
    /\ LET cur == L(p).cur
           candidate == IF cur = 0 THEN L(p).path ELSE Parents(L(p).path)[cur]
           project == GetProjectByPath(db, candidate)
       IN IF project # {}
          THEN Goto(p, IF L(p).cmd \in ReportCmds THEN "report" ELSE "check",
                    [L(p) EXCEPT !.project = project, !.is_child = (cur > 0)])
          ELSE IF cur < Len(L(p).path)
          THEN Goto(p, "resolve", [L(p) EXCEPT !.cur = cur + 1])
          ELSE Finish(p, L(p), "not_initialized", EmptyText)
    /\ UNCHANGED <<db, clock, gitRoots, ret, begun, txn, writer, pre>>

\* variant: start that does not look at the active session
StartBranchAlwaysCreate(active) == "create"

\* start: report the active session, or create one
StartBranch(active) == IF active # {} THEN "already_active" ELSE "create"

\* variant: note that always starts a session
NoteBranchAlwaysCreate(active) == "create"

\* note: start a session when there is none
NoteBranch(active) == IF active = {} THEN "create" ELSE "attach"

\* variant: every capture recorded as an end capture
CaptureKindAlwaysEnd(cmd) == "git_end"

\* the capture kind start and end record
CaptureKind(cmd) == IF cmd = "start" THEN "git_start" ELSE "git_end"

\* start, end, note, summary: session = db.get_active_session(project.id),
\* and what each handler does with the answer.  fetchone() gives one of the
\* rows that match.
Check(p) ==
    /\ At(p, "check")
    /\ LET active == ActiveSessions(db, TheProject(p).id)
           cmd == L(p).cmd
       IN \/ /\ cmd = "start" /\ StartBranch(active) = "create"
             /\ Goto(p, "cs_now", L(p))
             /\ clock' = clock
          \/ /\ cmd = "start" /\ StartBranch(active) = "already_active"
             /\ \E s \in active :
                    Finish(p, [L(p) EXCEPT !.session = {s}], "already_active",
                           FormatDuration(s.started_at, clock))
             /\ clock' = Tick(clock)
          \/ /\ cmd = "note" /\ NoteBranch(active) = "create"
             /\ Goto(p, "cs_now", L(p))
             /\ clock' = clock
          \/ /\ cmd = "note" /\ NoteBranch(active) = "attach"
             /\ \E s \in active : Goto(p, "an_now", [L(p) EXCEPT !.session = {s}])
             /\ clock' = clock
          \/ /\ cmd \in {"end", "summary"} /\ active = {}
             /\ Finish(p, L(p), "no_active_session", EmptyText)
             /\ clock' = clock
          \/ /\ cmd \in {"end", "summary"}
             /\ clock' = clock
             /\ \E s \in active :
                    LET locals == [L(p) EXCEPT !.session = {s}]
                        ctx == Capture(L(p).path, s.started_at)
                    IN IF cmd = "end" /\ L(p).fe = "cli" /\ IsGitRepo(L(p).path) /\ ctx # {}
                       THEN Goto(p, "ac_now", [locals EXCEPT !.ctx = ctx])
                       ELSE Goto(p, "get_notes", locals)
    /\ UNCHANGED <<db, gitRoots, ret, begun, txn, writer, pre>>

\* create_session: now = datetime.now().isoformat(), before the connection
CreateSessionNow(p) ==
    /\ At(p, "cs_now")
    /\ Goto(p, "cs_insert", [L(p) EXCEPT !.now = clock])
    /\ clock' = Tick(clock)
    /\ UNCHANGED <<db, gitRoots, ret, begun, txn, writer, pre>>

\* create_session: INSERT INTO sessions; the connection takes the write lock
CreateSessionInsert(p, io_ok) ==
    /\ At(p, "cs_insert")
    /\ LET ok == io_ok /\ writer = 0
       IN IF ok
          THEN /\ Len(db.sessions) < MaxSessions /\ Rows(db) < MaxRows
               /\ txn' = InsertSession(db, TheProject(p).id, L(p).now)
               /\ writer' = p
               /\ Goto(p, "cs_update", L(p))
          ELSE /\ Raise(p, L(p), "StorageError")
               /\ UNCHANGED <<txn, writer>>
    /\ UNCHANGED <<db, clock, gitRoots, ret, begun, pre>>

\* create_session: UPDATE projects SET last_active, on the same connection
CreateSessionUpdate(p, io_ok) ==
    /\ At(p, "cs_update")
    /\ IF io_ok
       THEN /\ txn' = UpdateLastActive(txn, TheProject(p).id, L(p).now)
            /\ Goto(p, "cs_commit", L(p))
            /\ UNCHANGED <<db, writer>>
       ELSE /\ db' = ConnectionExit(db, txn, FALSE)
            /\ txn' = EmptyDb
            /\ writer' = 0
            /\ Raise(p, L(p), "StorageError")
    /\ UNCHANGED <<clock, gitRoots, ret, begun, pre>>

\* create_session: leaving the with block (commit), then the caller goes on:
\* start takes the start capture when the directory is a repository, note
\* goes on to add its note.
CreateSessionCommit(p, io_ok) ==
    /\ At(p, "cs_commit")
    /\ db' = ConnectionExit(db, txn, io_ok)
    /\ txn' = EmptyDb
    /\ writer' = 0
    /\ IF ~io_ok THEN Raise(p, L(p), "StorageError")
       ELSE LET session == [id |-> Len(txn.sessions), project_id |-> TheProject(p).id,
                            started_at |-> L(p).now, ended_at |-> NULL,
                            summary |-> NullText]
                locals == [L(p) EXCEPT !.session = {session}]
            IN IF L(p).cmd = "note" THEN Goto(p, "an_now", locals)
               ELSE IF IsGitRepo(GitDir(p)) /\ Capture(GitDir(p), NULL) # {}
               THEN Goto(p, "ac_now", [locals EXCEPT !.ctx = Capture(GitDir(p), NULL)])
               ELSE Finish(p, locals, "started", EmptyText)
    /\ UNCHANGED <<clock, gitRoots, ret, begun, pre>>

\* add_capture: now = datetime.now().isoformat()
AddCaptureNow(p) ==
    /\ At(p, "ac_now")
    /\ Goto(p, "ac_insert", [L(p) EXCEPT !.now = clock])
    /\ clock' = Tick(clock)
    /\ UNCHANGED <<db, gitRoots, ret, begun, txn, writer, pre>>

\* add_capture(session.id, kind, context.to_summary(), context.to_json())
AddCapture(p, io_ok) ==
    /\ At(p, "ac_insert")
    /\ LET ctx == CHOOSE c \in L(p).ctx : TRUE
           kind == CaptureKind(L(p).cmd)
           working == InsertCapture(db, TheSession(p).id, kind, ToSummary(ctx),
                                    ToJson(ctx), L(p).now)
           ok == io_ok /\ writer = 0
       IN /\ ok => (Len(db.captures) < MaxCaptures /\ Rows(db) < MaxRows)
          /\ db' = ConnectionExit(db, working, ok)
          /\ IF ~ok THEN Raise(p, L(p), "StorageError")
             ELSE IF L(p).cmd = "start" THEN Finish(p, L(p), "started", EmptyText)
             ELSE IF L(p).fe = "cli" THEN Goto(p, "get_notes", L(p))
             ELSE Goto(p, "summarize", L(p))
    /\ UNCHANGED <<clock, gitRoots, ret, begun, txn, writer, pre>>

\* add_note: now = datetime.now().isoformat()
AddNoteNow(p) ==
    /\ At(p, "an_now")
    /\ Goto(p, "an_insert", [L(p) EXCEPT !.now = clock])
    /\ clock' = Tick(clock)
    /\ UNCHANGED <<db, gitRoots, ret, begun, txn, writer, pre>>

\* add_note(session.id, note_text)
AddNote(p, io_ok) ==
    /\ At(p, "an_insert")
    /\ LET note_text == IF L(p).fe = "mcp" THEN Strip(L(p).text) ELSE L(p).text
           working == InsertNote(db, TheSession(p).id, note_text, L(p).now)
           ok == io_ok /\ writer = 0
       IN /\ ok => (Len(db.notes) < MaxNotes /\ Rows(db) < MaxRows)
          /\ db' = ConnectionExit(db, working, ok)
          /\ IF ok THEN Finish(p, L(p), "note_added", EmptyText)
             ELSE Raise(p, L(p), "StorageError")
    /\ UNCHANGED <<clock, gitRoots, ret, begun, txn, writer, pre>>

\* end, summary: notes = [n.content for n in db.get_session_notes(session.id)]
GetNotes(p) ==
    /\ At(p, "get_notes")
    /\ Goto(p, "get_captures",
            [L(p) EXCEPT !.notes = Contents(GetSessionNotes(db, TheSession(p).id))])
    /\ UNCHANGED <<db, clock, gitRoots, ret, begun, txn, writer, pre>>

\* end, summary: captures = [c.content for c in db.get_session_captures(...)],
\* then the version-control text for the summarizer; _handle_end takes its
\* end capture only now.
GetCaptures(p) ==
    /\ At(p, "get_captures")
    /\ LET locals == [L(p) EXCEPT
                        !.captures = Contents(GetSessionCaptures(db, TheSession(p).id))]
           since == TheSession(p).started_at
       IN IF L(p).cmd = "end" /\ L(p).fe = "cli"
          THEN Goto(p, "summarize",
                    [locals EXCEPT !.git_context =
                        IF IsGitRepo(L(p).path) /\ Capture(L(p).path, NULL) # {}
                        THEN ToSummary(CHOOSE c \in Capture(L(p).path, NULL) : TRUE)
                        ELSE EmptyText])
          ELSE IF ~IsGitRepo(TheProject(p).path) \/ Capture(TheProject(p).path, since) = {}
          THEN Goto(p, "summarize", locals)
          ELSE LET ctx == Capture(TheProject(p).path, since)
                   with_text == [locals EXCEPT !.ctx = ctx,
                                    !.git_context = ToSummary(CHOOSE c \in ctx : TRUE)]
               IN IF L(p).cmd = "end" THEN Goto(p, "ac_now", with_text)
                  ELSE Goto(p, "summarize", with_text)
    /\ UNCHANGED <<db, clock, gitRoots, ret, begun, txn, writer, pre>>

\* variant: the mid-session summary ends the session as end does
EndsSessionAlways(cmd) == TRUE

\* end persists the summary with end_session; summary only shows it
EndsSession(cmd) == cmd = "end"

\* end, summary: summarizer.summarize_session(...).  client.generate is
\* called without a timeout: when the backend accepts the request and never
\* answers, the call does not return and the handler stays in it ("generate").  The CLI summary command
\* asks is_available() first and shows no summary when it is not.
Summarize(p) ==
    /\ At(p, "summarize")
    /\ \/ \E backend \in Backends, response \in BackendResponses :
            LET text == SummarizeWith(backend, response, L(p).git_context, L(p).notes,
                                      L(p).captures, TheProject(p).name)
                locals == [L(p) EXCEPT !.summary = text, !.backend = backend]
            IN IF EndsSession(L(p).cmd)
               THEN /\ Goto(p, "es_now", locals)
                    /\ clock' = clock
               ELSE /\ Finish(p, locals, "summary",
                              FormatDuration(TheSession(p).started_at, clock))
                    /\ clock' = Tick(clock)
       \/ /\ L(p).cmd = "summary" /\ L(p).fe = "cli"
          /\ Finish(p, L(p), "summary", FormatDuration(TheSession(p).started_at, clock))
          /\ clock' = Tick(clock)
       \/ /\ Goto(p, "generate", [L(p) EXCEPT !.backend = "hangs"])
          /\ clock' = clock
    /\ UNCHANGED <<db, gitRoots, ret, begun, txn, writer, pre>>

\* end_session: datetime.now().isoformat() for ended_at
EndSessionNow(p) ==
    /\ At(p, "es_now")
    /\ Goto(p, "es_update", [L(p) EXCEPT !.now = clock])
    /\ clock' = Tick(clock)
    /\ UNCHANGED <<db, gitRoots, ret, begun, txn, writer, pre>>

\* end_session(session.id, summary), then the duration for the report
EndSession(p, io_ok) ==
    /\ At(p, "es_update")
    /\ LET working == UpdateSessionEnd(db, TheSession(p).id, L(p).now, L(p).summary)
           ok == io_ok /\ writer = 0
       IN /\ db' = ConnectionExit(db, working, ok)
          /\ IF ok
             THEN /\ Finish(p, L(p), "ended", FormatDuration(TheSession(p).started_at, clock))
                  /\ clock' = Tick(clock)
             ELSE /\ Raise(p, L(p), "StorageError")
                  /\ clock' = clock
    /\ UNCHANGED <<gitRoots, ret, begun, txn, writer, pre>>

\* history <project_name>: the first project of list_projects with the name
Lookup(p) ==
    /\ At(p, "lookup")
    /\ LET projects == ListProjects(db)
           named == {i \in DOMAIN projects : projects[i].name = L(p).name}
       IN IF named = {}
          THEN Finish(p, L(p), "project_not_found", EmptyText)
          ELSE Goto(p, "report",
                    [L(p) EXCEPT !.project =
                        {projects[CHOOSE i \in named : \A j \in named : i <= j]}])
    /\ UNCHANGED <<db, clock, gitRoots, ret, begun, txn, writer, pre>>

\* status, resume, history, list: the queries of the report and the clock
\* reading of format_duration / format_time_ago.  Nothing of what they read
\* is written back, so the queries are one step.  session is the active
\* session (status), the last ended one (resume) or the most recent (history).
Report(p) ==
    /\ At(p, "report")
    /\ LET cmd == L(p).cmd
       IN \/ /\ cmd = "status"
             /\ LET active == ActiveSessions(db, TheProject(p).id)
                IN IF active = {}
                   THEN Finish(p, L(p), "status_idle", EmptyText)
                   ELSE \E s \in active :
                            Finish(p, [L(p) EXCEPT !.session = {s}], "status_active",
                                   FormatDuration(s.started_at, clock))
             /\ clock' = Tick(clock)
          \/ /\ cmd = "resume"
             /\ LET last == GetLastSession(db, TheProject(p).id)
                    recent == CountRecentNotes(db, TheProject(p).id, HistoryLimit)
                IN IF last = {}
                   THEN Finish(p, L(p), "resume", <<ToString(recent)>>)
                   ELSE \E s \in last :
                            Finish(p, [L(p) EXCEPT !.session = {s}], "resume",
                                   <<ToString(recent)>>)
             /\ clock' = Tick(clock)
          \/ /\ cmd = "history"
             /\ LET sessions == GetRecentSessions(db, TheProject(p).id, HistoryLimit)
                IN IF sessions = <<>>
                   THEN /\ Finish(p, L(p), "no_history", EmptyText)
                        /\ clock' = clock
                   ELSE /\ Finish(p, [L(p) EXCEPT !.session = {sessions[1]}], "history",
                                   FormatDuration(sessions[1].started_at,
                                       IF sessions[1].ended_at # NULL
                                       THEN sessions[1].ended_at ELSE clock))
                        /\ clock' = Tick(clock)
          \/ /\ cmd = "list"
             /\ IF ListProjects(db) = <<>>
                THEN /\ Finish(p, L(p), "no_projects", EmptyText)
                     /\ clock' = clock
                ELSE /\ Finish(p, L(p), "list", <<ToString(Len(ListProjects(db)))>>)
                     /\ clock' = Tick(clock)
    /\ UNCHANGED <<db, gitRoots, ret, begun, txn, writer, pre>>

\* The invocation is over; in a sequential run the next one starts from the
\* database as it is now.
Return(p, sequential) ==
    /\ At(p, "done")
    /\ Goto(p, "idle", IdleLoc)
    /\ pre' = IF sequential THEN db ELSE pre
    /\ UNCHANGED <<db, clock, gitRoots, ret, begun, txn, writer>>

Step(p, sequential) ==
    \/ \E cmd \in Cmds, fe \in FrontEnds, path \in Dirs, text \in NoteTexts :
       \E name \in NameChoices(path) :
           Begin(p, cmd, fe, path, name, text, sequential)
    \/ InitCheck(p)
    \/ CreateProjectNow(p)
    \/ \E io_ok \in BOOLEAN : CreateProject(p, io_ok)
    \/ Resolve(p)
    \/ Check(p)
    \/ CreateSessionNow(p)
    \/ \E io_ok \in BOOLEAN : CreateSessionInsert(p, io_ok)
    \/ \E io_ok \in BOOLEAN : CreateSessionUpdate(p, io_ok)
    \/ \E io_ok \in BOOLEAN : CreateSessionCommit(p, io_ok)
    \/ AddCaptureNow(p)
    \/ \E io_ok \in BOOLEAN : AddCapture(p, io_ok)
    \/ AddNoteNow(p)
    \/ \E io_ok \in BOOLEAN : AddNote(p, io_ok)
    \/ GetNotes(p)
    \/ GetCaptures(p)
    \/ Summarize(p)
    \/ EndSessionNow(p)
    \/ \E io_ok \in BOOLEAN : EndSession(p, io_ok)
    \/ Lookup(p)
    \/ Report(p)
    \/ Return(p, sequential)

\* Invocations one at a time: a single caller.
SeqNext == Step(1, TRUE)

SeqSpec == Init /\ [][SeqNext]_vars

\* Invocations of NumProcs callers, interleaved.
Next == \E p \in Procs : Step(p, FALSE)

Spec == Init /\ [][Next]_vars

----------------------------------------------------------------------------
(* ResolveSpec: find_project_root on deeper directory trees.  The store    *)
(* tracks any set of the directories down to ResolveDepth, created in any  *)
(* order, and the resolution starts from any of them.                      *)

ResolveDepth == 3

DeepDirs == {Dir(k) : k \in 0..ResolveDepth}

\* the orders in which a set of directories can have been initialised
Orders(S) == {s \in [1..Cardinality(S) -> S] : \A i, j \in DOMAIN s : i # j => s[i] # s[j]}

\* create_project for each directory in turn
RECURSIVE TrackAll(_)
TrackAll(paths) ==
    IF Len(paths) = 0 THEN EmptyDb
    ELSE InsertProject(TrackAll(SubSeq(paths, 1, Len(paths) - 1)),
                       PathName(paths[Len(paths)]), paths[Len(paths)], 1)

ResolveInit ==
    /\ \E S \in SUBSET DeepDirs : \E order \in Orders(S) : db = TrackAll(order)
    /\ clock = 1
    /\ gitRoots = {}
    /\ ret = NoRet
    /\ \E cmd \in {"start", "status"}, fe \in FrontEnds, path \in DeepDirs :
           loc = [p \in Procs |->
                     IF p = 1 THEN [IdleLoc EXCEPT !.cmd = cmd, !.fe = fe, !.path = path]
                     ELSE IdleLoc]
    /\ pc = [p \in Procs |-> IF p = 1 THEN "resolve" ELSE "idle"]
    /\ txn = EmptyDb
    /\ writer = 0
    /\ pre = db
    /\ begun = 0

ResolveNext == Resolve(1)

ResolveSpec == ResolveInit /\ [][ResolveNext]_vars

----------------------------------------------------------------------------
(* FallbackSpec: _fallback_summary called on any arguments, one call per   *)
(* step; ret holds the last call.  The version-control text is empty (no   *)
(* repository) or the to_summary of a snapshot.                            *)

MaxFallbackNotes == 4

FallbackBranches == {RepoBranch, "fix-commits"}

FallbackNoteTexts == {"fixed bug", "wip"}

FallbackNotes == UNION {[1..n -> FallbackNoteTexts] : n \in 0..MaxFallbackNotes}

FallbackNames == {"demo", "api"}

FallbackSnapshots ==
    {{}} \cup {{[branch |-> b, recent_commits |-> c, modified_files |-> RepoModified,
                 staged_files |-> RepoStaged, untracked_files |-> RepoUntracked,
                 has_uncommitted_changes |-> TRUE]} :
                   b \in FallbackBranches, c \in {<<>>, RepoHistory}}

FallbackCall(ctx, notes, captures, project_name) ==
    /\ LET git_context == IF ctx = {} THEN EmptyText ELSE ToSummary(CHOOSE c \in ctx : TRUE)
       IN ret' = [op |-> "_fallback_summary",
                  arg |-> [ctx |-> ctx, notes |-> notes, captures |-> captures,
                           project_name |-> project_name],
                  outcome |-> FallbackSummary(git_context, notes, captures, project_name)]
    /\ UNCHANGED <<db, clock, gitRoots, pc, loc, txn, writer, pre, begun>>

FallbackNext ==
    \E ctx \in FallbackSnapshots, notes \in FallbackNotes,
       captures \in {<<>>, <<ToSummary(StoreCtx)>>}, project_name \in FallbackNames :
        FallbackCall(ctx, notes, captures, project_name)

FallbackSpec == StoreInit /\ [][FallbackNext]_vars

----------------------------------------------------------------------------
(* SummarizerSpec: one OllamaSummarizer object and a sequence of           *)
(* summarize_session calls on it.  At each call the ollama library can be  *)
(* imported or not and the server is running, down, or fails in generate.  *)
(* ret holds the last call: arg._client is the object's _client field      *)
(* before the call, outcome.client the field after it.                     *)

ServerStates == {"running", "down", "generate_fails"}

\* the object's _client field after the last call (None after __init__)
ClientField == IF ret.op = "summarize_session" THEN ret.outcome.client ELSE "None"

\* variant: a failed import is remembered
ClientCachesFailure(_client, library) ==
    IF _client = "None" THEN (IF library THEN "ollama" ELSE "failed") ELSE _client

\* OllamaSummarizer.client: the _client field after the property is read.
\* An ImportError leaves it None, so the import is tried again next time.
Client(_client, library) ==
    IF _client = "None" THEN (IF library THEN "ollama" ELSE "None") ELSE _client

\* OllamaSummarizer.is_available
IsAvailable(client, server) == client = "ollama" /\ server # "down"

\* the condition summarize_session meets
BackendAt(client, server) ==
    IF client # "ollama" THEN "missing"
    ELSE IF server = "down" THEN "down"
    ELSE IF server = "generate_fails" THEN "raises"
    ELSE "answers"

SummarizerCall(library, server, response, notes, project_name) ==
    /\ LET client == Client(ClientField, library)
           backend == BackendAt(client, server)
       IN ret' = [op |-> "summarize_session",
                  arg |-> [_client |-> ClientField, library |-> library, server |-> server,
                           previous |-> IF ret.op = "summarize_session"
                                        THEN ret.outcome.path ELSE "none",
                           notes |-> notes, project_name |-> project_name],
                  outcome |-> [client |-> client,
                               path |-> IF IsAvailable(client, server) /\ backend = "answers"
                                        THEN "backend" ELSE "fallback",
                               text |-> SummarizeWith(backend, response, EmptyText, notes,
                                                      <<>>, project_name)]]
    /\ UNCHANGED <<db, clock, gitRoots, pc, loc, txn, writer, pre, begun>>

SummarizerNext ==
    \E library \in BOOLEAN, server \in ServerStates, response \in BackendResponses,
       notes \in {<<>>, <<"fixed bug">>, <<"fixed bug", "wip">>}, project_name \in FallbackNames :
        SummarizerCall(library, server, response, notes, project_name)

SummarizerSpec == StoreInit /\ [][SummarizerNext]_vars

----------------------------------------------------------------------------
(* GitSpec: the functions of capture/git_capture.py called on any          *)
(* arguments, one call in each run; ret holds the call.                    *)

MaxHistory == 3

MaxDate == 3

\* the commit histories, newest first as iter_commits yields them: any
\* authored dates (a rebase or a wrong clock can put them out of order)
Histories ==
    UNION {{[i \in 1..n |-> [sha |-> ToString(i), message |-> "add parser", date |-> d[i]]] :
               d \in [1..n -> 1..MaxDate]} : n \in 0..MaxHistory}

Limits == {1, 2, LimitDefault}

Sinces == {NULL} \cup (1..MaxDate + 1)

GetRecentCommitsCall(history, limit, since, fail_at) ==
    /\ ret = NoRet
    /\ fail_at <= Len(history)
    /\ ret' = [op |-> "get_recent_commits",
               arg |-> [history |-> history, limit |-> limit, since |-> since,
                        fail_at |-> fail_at],
               outcome |-> RecentCommitsOf(history, limit, since, fail_at)]
    /\ UNCHANGED <<db, clock, gitRoots, pc, loc, txn, writer, pre, begun>>

CaptureCall(history, since, fail_at) ==
    /\ ret = NoRet
    /\ fail_at <= Len(history)
    /\ ret' = [op |-> "capture",
               arg |-> [history |-> history, limit |-> LimitDefault, since |-> since,
                        fail_at |-> fail_at],
               outcome |-> CaptureOf(history, since, fail_at)]
    /\ UNCHANGED <<db, clock, gitRoots, pc, loc, txn, writer, pre, begun>>

MaxListed == 11

\* n commits, n files
Commits(n) == [i \in 1..n |-> [sha |-> ToString(i), message |-> "add parser", date |-> 1]]

Files(n) == [i \in 1..n |-> ToString(i)]

\* snapshots with lists below, at and above the lengths to_summary shows
Snapshots ==
    {[branch |-> RepoBranch, recent_commits |-> Commits(c), modified_files |-> Files(m),
      staged_files |-> Files(s), untracked_files |-> Files(u),
      has_uncommitted_changes |-> dirty] :
        c \in {0, 1, 5, 6}, m \in {0, 1, 10, MaxListed}, s \in {0, 5, 6, MaxListed},
        u \in {0, 1, MaxListed}, dirty \in BOOLEAN}

ToSummaryCall(ctx) ==
    /\ ret = NoRet
    /\ ret' = [op |-> "to_summary", arg |-> ctx, outcome |-> ToSummary(ctx)]
    /\ UNCHANGED <<db, clock, gitRoots, pc, loc, txn, writer, pre, begun>>

ToJsonCall(ctx) ==
    /\ ret = NoRet
    /\ ret' = [op |-> "to_json", arg |-> ctx,
               outcome |-> [text |-> ToJson(ctx), parsed |-> FromJson(ToJson(ctx))]]
    /\ UNCHANGED <<db, clock, gitRoots, pc, loc, txn, writer, pre, begun>>

GitNext ==
    \/ \E ctx \in Snapshots : ToSummaryCall(ctx)
    \/ \E ctx \in Snapshots : ToJsonCall(ctx)
    \/ \E history \in Histories, limit \in Limits, since \in Sinces, fail_at \in 0..MaxHistory :
           GetRecentCommitsCall(history, limit, since, fail_at)
    \/ \E history \in Histories, since \in Sinces, fail_at \in 0..MaxHistory :
           CaptureCall(history, since, fail_at)

GitSpec == StoreInit /\ [][GitNext]_vars

----------------------------------------------------------------------------
(* QuerySpec: the read queries of the store on stores with two projects,   *)
(* several sessions and several notes and captures, one query in each run. *)
(* Timestamps are readings of the wall clock, which can be set back, so    *)
(* they need not grow with the row ids.                                    *)

MaxQuerySessions == 3

MaxQueryNotes == 3

\* two projects; session 1 is ended, the others are active; a capture is
\* stored with every note
QueryStore(k, n, owner, at) ==
         [projects |-> TrackAll(<<Dir(0), Dir(1)>>).projects,
          sessions |-> [i \in 1..k |->
                          [id |-> i, project_id |-> owner[i], started_at |-> 1,
                           ended_at |-> IF i = 1 THEN MaxClock ELSE NULL,
                           summary |-> IF i = 1 THEN <<"Test summary">> ELSE NullText]],
          notes |-> [i \in 1..n |->
                        [id |-> i, session_id |-> at[i][1], content |-> "fixed bug",
                         timestamp |-> at[i][2]]],
          captures |-> [i \in 1..n |->
                           [id |-> i, session_id |-> at[i][1], capture_type |-> "git_start",
                            content |-> ToSummary(StoreCtx), metadata |-> ToJson(StoreCtx),
                            timestamp |-> at[i][2]]]]

QueryInit ==
    /\ \E k \in 2..MaxQuerySessions, n \in 0..MaxQueryNotes :
           \E owner \in [1..k -> 1..2], at \in [1..n -> (1..k) \X (1..MaxClock)] :
               db = QueryStore(k, n, owner, at)
    /\ clock = MaxClock
    /\ gitRoots = {}
    /\ ret = NoRet
    /\ pc = [p \in Procs |-> "idle"]
    /\ loc = [p \in Procs |-> IdleLoc]
    /\ txn = EmptyDb
    /\ writer = 0
    /\ pre = db
    /\ begun = 0

GetSessionNotesCall(session_id) ==
    /\ ret = NoRet
    /\ ret' = [op |-> "get_session_notes", arg |-> <<session_id>>,
               outcome |-> GetSessionNotes(db, session_id)]
    /\ UNCHANGED <<db, clock, gitRoots, pc, loc, txn, writer, pre, begun>>

GetSessionCapturesCall(session_id) ==
    /\ ret = NoRet
    /\ ret' = [op |-> "get_session_captures", arg |-> <<session_id>>,
               outcome |-> GetSessionCaptures(db, session_id)]
    /\ UNCHANGED <<db, clock, gitRoots, pc, loc, txn, writer, pre, begun>>

GetRecentNotesCall(project_id, limit) ==
    /\ ret = NoRet
    /\ ret' = [op |-> "get_recent_notes", arg |-> <<project_id, limit>>,
               outcome |-> GetRecentNotes(db, project_id, limit)]
    /\ UNCHANGED <<db, clock, gitRoots, pc, loc, txn, writer, pre, begun>>

QueryNext ==
    \/ \E session_id \in 1..Len(db.sessions) : GetSessionNotesCall(session_id)
    \/ \E session_id \in 1..Len(db.sessions) : GetSessionCapturesCall(session_id)
    \/ \E project_id \in 1..Len(db.projects), limit \in Limits :
           GetRecentNotesCall(project_id, limit)

QuerySpec == QueryInit /\ [][QueryNext]_vars

----------------------------------------------------------------------------
(* EndLiveSpec: one end invocation on a project with an active session,    *)
(* under weak fairness: the process that runs the command takes its next   *)
(* step whenever it has one.                                               *)

\* the stores with one project and its active session, with or without a
\* note and a start capture
ActiveStores ==
    LET base == InsertSession(TrackAll(<<Dir(1)>>), 1, 1)
        noted == InsertNote(base, 1, "fixed bug", 1)
    IN {base, noted,
        InsertCapture(base, 1, "git_start", ToSummary(StoreCtx), ToJson(StoreCtx), 1),
        InsertCapture(noted, 1, "git_start", ToSummary(StoreCtx), ToJson(StoreCtx), 1)}

EndInit ==
    /\ gitRoots \in GitChoices
    /\ db \in ActiveStores
    /\ Len(db.captures) > 0 => gitRoots # {}
    /\ clock \in 1..2
    /\ ret = NoRet
    /\ pc = [p \in Procs |-> "idle"]
    /\ loc = [p \in Procs |-> IdleLoc]
    /\ txn = EmptyDb
    /\ writer = 0
    /\ pre = db
    /\ begun = 0

EndNext ==
    \/ \E fe \in FrontEnds, path \in Dirs : Begin(1, "end", fe, path, "", "", TRUE)
    \/ Resolve(1)
    \/ Check(1)
    \/ AddCaptureNow(1)
    \/ \E io_ok \in BOOLEAN : AddCapture(1, io_ok)
    \/ GetNotes(1)
    \/ GetCaptures(1)
    \/ Summarize(1)
    \/ EndSessionNow(1)
    \/ \E io_ok \in BOOLEAN : EndSession(1, io_ok)

EndLiveSpec == EndInit /\ [][EndNext]_vars /\ WF_vars(EndNext)

----------------------------------------------------------------------------
(* OpenedSpec: the sequential runs, with a record of the working directory *)
(* from which the open session was started.  ret holds, while a session    *)
(* that a start or a note created is open, the directory the command was   *)
(* invoked from and the id of the session.                                 *)

\* The invocation is over.  A start or note that has created a session is
\* recorded with its working directory; the record is dropped once its
\* session is ended.
ReturnOpened(p) ==
    /\ At(p, "done")
    /\ Goto(p, "idle", IdleLoc)
    /\ pre' = db
    /\ LET kept == IF ret.op = "opened"
                       /\ \E i \in DOMAIN db.sessions :
                              db.sessions[i].id = ret.outcome /\ db.sessions[i].ended_at = NULL
                   THEN ret ELSE NoRet
           created == /\ L(p).cmd \in {"start", "note"}
                      /\ L(p).session # {}
                      /\ \E i \in DOMAIN db.sessions :
                             db.sessions[i].id = TheSession(p).id
                      /\ \A i \in DOMAIN pre.sessions :
                             pre.sessions[i].id # TheSession(p).id
       IN ret' = IF kept = NoRet /\ created
                 THEN [op |-> "opened", arg |-> L(p).path, outcome |-> TheSession(p).id]
                 ELSE kept
    /\ UNCHANGED <<db, clock, gitRoots, begun, txn, writer>>

\* the commands one at a time, in directories that hold no repository (no
\* capture is taken)
OpenedNext ==
    \/ \E cmd \in Cmds, fe \in FrontEnds, path \in Dirs, text \in NoteTexts :
       \E name \in NameChoices(path) :
           Begin(1, cmd, fe, path, name, text, TRUE)
    \/ InitCheck(1)
    \/ CreateProjectNow(1)
    \/ \E io_ok \in BOOLEAN : CreateProject(1, io_ok)
    \/ Resolve(1)
    \/ Check(1)
    \/ CreateSessionNow(1)
    \/ \E io_ok \in BOOLEAN : CreateSessionInsert(1, io_ok)
    \/ \E io_ok \in BOOLEAN : CreateSessionUpdate(1, io_ok)
    \/ \E io_ok \in BOOLEAN : CreateSessionCommit(1, io_ok)
    \/ AddNoteNow(1)
    \/ \E io_ok \in BOOLEAN : AddNote(1, io_ok)
    \/ GetNotes(1)
    \/ GetCaptures(1)
    \/ Summarize(1)
    \/ EndSessionNow(1)
    \/ \E io_ok \in BOOLEAN : EndSession(1, io_ok)
    \/ Lookup(1)
    \/ Report(1)
    \/ ReturnOpened(1)

OpenedSpec == StoreInit /\ [][OpenedNext]_vars

----------------------------------------------------------------------------
(* McpSpec: DevContextMCPServer.run_stdio, one server reading its standard *)
(* input.  ret is the loop: arg is the line read last, outcome holds the   *)
(* loop's req_id, the responses printed for that line and what call_tool   *)
(* did for it.  The tool handlers are the invocation steps above, taken by *)
(* caller 1 with the MCP front end, in directories without a repository.   *)
(* pre is the database when the line was read; the input has at most       *)
(* MaxInvocations lines.  Of the line read last, arg keeps what the loop    *)
(* itself reads: the arguments of a tool go to the handler.                *)

\* req_id before the first request has assigned it
Unbound == -1

\* request.get("id"): absent (None) or a number
RequestIds == {NULL, 1, 2}

\* the names in call_tool's handlers
Tools == {"status", "start", "end", "note", "summary", "resume", "init"}

NoLine ==
    [kind |-> "none", id |-> NULL, method |-> "", params_ok |-> TRUE, name |-> "",
     arguments_ok |-> TRUE, path_ok |-> TRUE, path |-> <<>>, text |-> "",
     project_name |-> ""]

\* The lines of the input: text that is not JSON, JSON that is not an object,
\* and requests; a tools/call names a tool (or "unknown") and carries
\* arguments, which may be no object or hold a path that is no string.
Lines ==
    {[NoLine EXCEPT !.kind = k] : k \in {"not_json", "not_object"}}
    \cup {[NoLine EXCEPT !.kind = "request", !.id = id, !.method = m] :
            id \in RequestIds, m \in {"tools/list", "initialize", "other"}}
    \cup {[NoLine EXCEPT !.kind = "request", !.id = id, !.method = "tools/call",
                         !.params_ok = FALSE] : id \in RequestIds}
    \cup {[NoLine EXCEPT !.kind = "request", !.id = id, !.method = "tools/call",
                         !.name = n, !.arguments_ok = a, !.path_ok = ~a] :
            id \in RequestIds, n \in {"status", "unknown"}, a \in BOOLEAN}
    \cup UNION {{[NoLine EXCEPT !.kind = "request", !.id = id, !.method = "tools/call",
                                !.name = n, !.path = path,
                                !.text = IF n = "note" THEN text ELSE "",
                                !.project_name = IF n = "init" THEN name ELSE ""] :
                    id \in RequestIds, n \in Tools \cup {"unknown"},
                    text \in NoteTexts, name \in NameChoices(path)} : path \in Dirs}

\* response = {"jsonrpc": "2.0", "id": req_id, "result": result}
ResultResponse(req_id) == <<[id |-> req_id, kind |-> "result"]>>

\* if req_id: response = {"jsonrpc": "2.0", "id": req_id, "error": {...}}
ErrorResponse(req_id) ==
    IF req_id # NULL THEN <<[id |-> req_id, kind |-> "error"]>> ELSE <<>>

\* except Exception as e: the handler reads req_id, which no statement has
\* assigned when the first line raises before request.get("id"); the
\* UnboundLocalError leaves run_stdio.
OnException(req_id) ==
    IF req_id = Unbound THEN [printed |-> <<>>, stopped |-> TRUE]
    ELSE [printed |-> ErrorResponse(req_id), stopped |-> FALSE]

\* {"success": False, "error": message}
Failure(message) == <<<<"success", "false">>, <<"error", message>>>>

\* The dict call_tool returns for a handler that has run: the handler's
\* return value, or {"error": str(e)} when it raised.  Members are written
\* as JSON text; the payload values are named, not computed.
HandlerResult(locals) ==
    LET kind == locals.result.kind
        cmd == locals.cmd
    IN IF kind = "error" THEN <<<<"error", locals.result.err>>>>
       ELSE IF kind = "not_initialized" /\ cmd = "status"
       THEN <<<<"tracked", "false">>, <<"message", "Project not initialized">>>>
       ELSE IF kind = "not_initialized" THEN Failure("Project not initialized")
       ELSE IF kind = "no_active_session" THEN Failure("No active session")
       ELSE IF kind = "note_text_required" THEN Failure("Note text required")
       ELSE IF cmd = "status"
       THEN <<<<"tracked", "true">>, <<"project", "project.name">>,
              <<"path", "project.path">>, <<"last_active", "format_time_ago">>,
              <<"session_active", IF kind = "status_active" THEN "true" ELSE "false">>,
              <<"session_duration",
                IF kind = "status_active" THEN "format_duration" ELSE "null">>>>
       ELSE IF kind = "already_active"
       THEN <<<<"success", "true">>, <<"message", "Session already active">>,
              <<"duration", "format_duration">>>>
       ELSE IF kind = "started"
       THEN <<<<"success", "true">>, <<"message", "Session started">>,
              <<"session_id", "session.id">>>>
       ELSE IF kind = "ended"
       THEN <<<<"success", "true">>, <<"duration", "format_duration">>,
              <<"summary", "summary">>>>
       ELSE IF kind = "note_added"
       THEN <<<<"success", "true">>, <<"message", "Note added">>>>
       ELSE IF kind = "summary"
       THEN <<<<"success", "true">>, <<"duration", "format_duration">>,
              <<"notes", "notes">>, <<"summary", "summary">>>>
       ELSE IF kind = "resume"
       THEN <<<<"success", "true">>, <<"project", "project.name">>,
              <<"last_active", "format_time_ago">>,
              <<"last_session_summary", "last_session.summary">>,
              <<"recent_notes", "recent_notes">>, <<"git", "null">>>>
       ELSE <<<<"success", "true">>,
              <<"message", IF kind = "already_tracked" THEN "already tracked"
                           ELSE "Initialized">>,
              <<"project", "project.name">>>>

Serving == [req_id |-> Unbound, printed |-> <<>>, tool |-> "none", dict |-> <<>>,
            stopped |-> FALSE]

McpInit ==
    /\ db = EmptyDb
    /\ clock = 1
    /\ gitRoots = {}
    /\ ret = [op |-> "run_stdio", arg |-> NoLine, outcome |-> Serving]
    /\ pc = [p \in Procs |-> "idle"]
    /\ loc = [p \in Procs |-> IdleLoc]
    /\ txn = EmptyDb
    /\ writer = 0
    /\ pre = EmptyDb
    /\ begun = 0

\* for line in sys.stdin: one line is read and served up to the response, or
\* up to the first step of the tool handler that call_tool starts.
ReadLine(line) ==
    /\ ret.op = "run_stdio" /\ ~ret.outcome.stopped
    /\ At(1, "idle")
    /\ begun < MaxInvocations
    /\ begun' = begun + 1
    /\ pre' = db
    /\ LET req_id == ret.outcome.req_id
           none == [Serving EXCEPT !.req_id = req_id]
           own == [Serving EXCEPT !.req_id = line.id]
           locals == [IdleLoc EXCEPT !.cmd = line.name, !.fe = "mcp", !.path = line.path,
                                     !.name = line.project_name, !.text = line.text]
           Out(o) == ret' = [op |-> "run_stdio", outcome |-> o,
                             arg |-> [line EXCEPT !.path = <<>>, !.text = "",
                                                  !.project_name = ""]]
       IN IF line.kind = "not_json"
          THEN Out(none) /\ UNCHANGED <<pc, loc>>
          ELSE IF line.kind = "not_object"
          THEN /\ Out([none EXCEPT !.printed = OnException(req_id).printed,
                                   !.stopped = OnException(req_id).stopped])
               /\ UNCHANGED <<pc, loc>>
          ELSE IF line.method # "tools/call"
          THEN Out([own EXCEPT !.printed = ResultResponse(line.id)]) /\ UNCHANGED <<pc, loc>>
          ELSE IF ~line.params_ok
          THEN /\ Out([own EXCEPT !.printed = OnException(line.id).printed])
               /\ UNCHANGED <<pc, loc>>
          ELSE IF ~line.arguments_ok \/ ~line.path_ok
          THEN /\ Out([own EXCEPT !.tool = "raised",
                                  !.printed = OnException(line.id).printed])
               /\ UNCHANGED <<pc, loc>>
          ELSE IF line.name \notin Tools
          THEN /\ Out([own EXCEPT !.tool = "returned",
                                  !.dict = <<<<"error", "Unknown tool">>>>,
                                  !.printed = ResultResponse(line.id)])
               /\ UNCHANGED <<pc, loc>>
          ELSE /\ Out([own EXCEPT !.tool = "running"])
               /\ IF line.name = "note" /\ Strip(line.text) = ""
                  THEN Finish(1, locals, "note_text_required", EmptyText)
                  ELSE Goto(1, IF line.name = "init" THEN "init_check" ELSE "resolve",
                            locals)
    /\ UNCHANGED <<db, clock, gitRoots, txn, writer>>

\* call_tool returns the handler's dict (or {"error": str(e)}) and the loop
\* prints the response with the request's id.
Respond ==
    /\ ret.op = "run_stdio" /\ ret.outcome.tool = "running"
    /\ At(1, "done")
    /\ ret' = [ret EXCEPT !.outcome.tool = "returned",
                          !.outcome.dict = HandlerResult(L(1)),
                          !.outcome.printed = ResultResponse(ret.outcome.req_id)]
    /\ Goto(1, "idle", IdleLoc)
    /\ UNCHANGED <<db, clock, gitRoots, begun, txn, writer, pre>>

McpNext ==
    \/ \E line \in Lines : ReadLine(line)
    \/ InitCheck(1)
    \/ CreateProjectNow(1)
    \/ \E io_ok \in BOOLEAN : CreateProject(1, io_ok)
    \/ Resolve(1)
    \/ Check(1)
    \/ CreateSessionNow(1)
    \/ \E io_ok \in BOOLEAN : CreateSessionInsert(1, io_ok)
    \/ \E io_ok \in BOOLEAN : CreateSessionUpdate(1, io_ok)
    \/ \E io_ok \in BOOLEAN : CreateSessionCommit(1, io_ok)
    \/ AddNoteNow(1)
    \/ \E io_ok \in BOOLEAN : AddNote(1, io_ok)
    \/ GetNotes(1)
    \/ GetCaptures(1)
    \/ Summarize(1)
    \/ EndSessionNow(1)
    \/ \E io_ok \in BOOLEAN : EndSession(1, io_ok)
    \/ Report(1)
    \/ Respond

McpSpec == McpInit /\ [][McpNext]_vars

----------------------------------------------------------------------------
(* ActiveSpec: the interleaved invocations on a store that already holds a *)
(* project with an active session, so that MaxInvocations commands all act *)
(* on the open session.                                                    *)

\* the store after init and a start (or a note whose INSERT failed)
ActiveInit == EndInit /\ clock = 2 /\ db.notes = <<>>

ActiveSpec == ActiveInit /\ [][Next]_vars

----------------------------------------------------------------------------
(* Properties.  They read the rows of the tables directly.                 *)

ProjectIds(d) == {d.projects[i].id : i \in DOMAIN d.projects}

\* the ids of the sessions of a project whose ended_at is unset
OpenSessions(d, project_id) ==
    {d.sessions[i].id : i \in {j \in DOMAIN d.sessions :
        d.sessions[j].project_id = project_id /\ d.sessions[j].ended_at = NULL}}

EndedSessions(d, project_id) ==
    {d.sessions[i].id : i \in {j \in DOMAIN d.sessions :
        d.sessions[j].project_id = project_id /\ d.sessions[j].ended_at # NULL}}

\* a directory is under version control when it or an ancestor holds a
\* repository
UnderVersionControl(path) ==
    \E k \in 0..Len(path) : SubSeq(path, 1, k) \in gitRoots

\* d is c with one row appended to the table
OneRowAdded(c, d) == Len(d) = Len(c) + 1 /\ SubSeq(d, 1, Len(c)) = c

\* the invocation of the sequential run has returned to its caller
Done(cmd) == pc[1] = "done" /\ loc[1].cmd = cmd

\* C1: when init, start, note and end run one at a time, every project has at
\* most one session whose ended_at is unset, in every state.
C1_AtMostOneActiveSession ==
    \A id \in ProjectIds(db) : Cardinality(OpenSessions(db, id)) <= 1

\* a note has started a session on a project that has an ended one
C1_Witness ==
    /\ Done("note") /\ loc[1].result.kind = "note_added"
    /\ \E id \in ProjectIds(db) :
           Cardinality(OpenSessions(db, id)) = 1 /\ EndedSessions(db, id) # {}

\* the start invocation p has created a session
Created(p) ==
    /\ loc[p].cmd = "start"
    /\ loc[p].session # {}
    /\ loc[p].result.kind # "already_active"

\* C2: two start invocations that interleave on the same Idle project never
\* both create a session: the project does not hold two sessions with ended_at
\* unset that two concurrent starts created.
C2_InterleavedStartsCreateOne ==
    \A p, q \in Procs :
        (p # q /\ Created(p) /\ Created(q)
         /\ TheProject(p).id = TheProject(q).id)
        => ~({TheSession(p).id, TheSession(q).id} \subseteq OpenSessions(db, TheProject(p).id)
             /\ TheSession(p).id # TheSession(q).id)

\* C3: after a create_session call of the store, the project it was called on
\* has at most one session with ended_at unset (a second call without an
\* end_session between observes the first).
C3_SecondCreateObservesFirst ==
    (ret.op = "create_session" /\ ret.outcome = "ok")
    => Cardinality(OpenSessions(db, ret.arg[1])) <= 1

\* C4: in every state of the interleaved runs, two init on one path included,
\* no two project rows have the same path.
C4_UniquePaths ==
    \A i, j \in DOMAIN db.projects :
        db.projects[i].path = db.projects[j].path => i = j

\* an init lost the race: its INSERT met the row the other init had committed
C4_Witness ==
    \E p \in Procs :
        /\ pc[p] = "done" /\ loc[p].cmd = "init"
        /\ loc[p].result.err = "IntegrityError"
        /\ Cardinality({i \in DOMAIN db.projects : db.projects[i].path = loc[p].path}) = 1

\* C5: a create_project call with a path that is tracked ends in an error,
\* the duplicate-path error unless the storage itself failed, and leaves the
\* store as it was.
C5_DuplicatePathFails ==
    [][(ret'.op = "create_project" /\ PathTracked(db, ret'.arg))
       => (/\ ret'.outcome \in {"IntegrityError", "StorageError"}
           /\ db' = db)]_vars

\* a create_project call has ended in the duplicate-path error
C5_Witness ==
    /\ ret.op = "create_project" /\ ret.outcome = "IntegrityError"
    /\ PathTracked(db, ret.arg)

\* C6: every write is all-or-nothing.  A step that makes a session row visible
\* makes the last_active of its project equal to its started_at in the same
\* step, last_active changes in no other step, and a step in which a handler
\* leaves with an exception leaves the committed store as it was.
C6_WritesAllOrNothing ==
    [][/\ \A i \in DOMAIN db'.sessions \ DOMAIN db.sessions :
              \E j \in DOMAIN db'.projects :
                  /\ db'.projects[j].id = db'.sessions[i].project_id
                  /\ db'.projects[j].last_active = db'.sessions[i].started_at
       /\ \A j \in DOMAIN db.projects :
              db'.projects[j].last_active # db.projects[j].last_active
              => \E i \in DOMAIN db'.sessions \ DOMAIN db.sessions :
                     /\ db'.sessions[i].project_id = db.projects[j].id
                     /\ db'.sessions[i].started_at = db'.projects[j].last_active
       /\ \A p \in Procs :
              (pc[p] # "done" /\ pc'[p] = "done" /\ loc'[p].result.err # "")
              => db' = db]_vars

\* create_session failed at its commit, after both statements: the project has
\* neither the session nor the new last_active
C6_Witness ==
    \E p \in Procs :
        /\ pc[p] = "done" /\ loc[p].result.at = "cs_commit"
        /\ \A i \in DOMAIN db.sessions : db.sessions[i].started_at # loc[p].now
        /\ \A j \in DOMAIN db.projects : db.projects[j].last_active # loc[p].now

\* C7: start on a project that has an active session changes nothing in the
\* store (no session, no capture, started_at and last_active as they were)
\* and reports "already active" with the time elapsed since started_at.
C7_StartOnActiveIsNoOp ==
    (loc[1].cmd = "start" /\ loc[1].project # {}
     /\ OpenSessions(pre, TheProject(1).id) # {})
    => /\ db = pre
       /\ pc[1] \in {"check", "done"}
       /\ pc[1] = "done"
          => /\ loc[1].result.kind = "already_active"
             /\ \E i \in DOMAIN pre.sessions :
                    /\ pre.sessions[i].id \in OpenSessions(pre, TheProject(1).id)
                    /\ \E t \in pre.sessions[i].started_at..clock :
                           loc[1].result.duration
                               = FormatDuration(pre.sessions[i].started_at, t)

\* a start has returned "already active"
C7_Witness ==
    /\ Done("start") /\ loc[1].result.kind = "already_active"
    /\ OpenSessions(db, TheProject(1).id) # {}

\* the directory start hands to the version-control reader: the working
\* directory in the CLI, the project's path in the MCP handler
StartDirectory ==
    IF loc[1].fe = "cli" THEN loc[1].path ELSE TheProject(1).path

\* C8: start on an Idle tracked project ends in "started" unless the storage
\* fails; it then has added exactly one session, of that project and with
\* ended_at unset, and exactly one git_start capture of that session when the
\* directory is under version control, no capture otherwise.
C8_StartOnIdleCreatesOne ==
    /\ (Done("start") /\ loc[1].project # {}
        /\ OpenSessions(pre, TheProject(1).id) = {})
       => /\ loc[1].result.kind \in {"started", "crash", "error"}
          /\ loc[1].result.kind # "started" => loc[1].result.err = "StorageError"
    /\ (Done("start") /\ loc[1].result.kind = "started")
       => /\ OpenSessions(pre, TheProject(1).id) = {}
          /\ OneRowAdded(pre.sessions, db.sessions)
          /\ db.sessions[Len(db.sessions)].project_id = TheProject(1).id
          /\ db.sessions[Len(db.sessions)].ended_at = NULL
          /\ db.notes = pre.notes
          /\ IF UnderVersionControl(StartDirectory)
             THEN /\ OneRowAdded(pre.captures, db.captures)
                  /\ db.captures[Len(db.captures)].session_id
                         = db.sessions[Len(db.sessions)].id
                  /\ db.captures[Len(db.captures)].capture_type = "git_start"
             ELSE db.captures = pre.captures

\* a start in a repository has returned "started"
C8_Witness ==
    /\ Done("start") /\ loc[1].result.kind = "started"
    /\ UnderVersionControl(StartDirectory)
    /\ Len(db.captures) = Len(pre.captures) + 1

\* C9: end, and the mid-session summary, on a tracked project without an
\* active session return "no active session", leave the store as it was
\* (no capture) and never reach the summarizer.
C9_EndWithoutSession ==
    (loc[1].cmd \in {"end", "summary"} /\ loc[1].project # {}
     /\ OpenSessions(pre, TheProject(1).id) = {})
    => /\ db = pre
       /\ loc[1].summary = NotInvoked
       /\ pc[1] \in {"check", "done"}
       /\ pc[1] = "done" => loc[1].result.kind = "no_active_session"

\* an end on a project whose session was ended before
C9_Witness ==
    /\ Done("end") /\ loc[1].result.kind = "no_active_session"
    /\ EndedSessions(db, TheProject(1).id) # {}

\* C10: when end has completed on the active session S, S has ended_at set
\* and the summarizer's text as its summary, and its project has no active
\* session; a start that completes later leaves S as it is and creates a
\* session that is none of the ended ones.
C10_EndThenStart ==
    /\ (Done("end") /\ loc[1].result.kind = "ended")
       => /\ OpenSessions(pre, TheProject(1).id) = {TheSession(1).id}
          /\ OpenSessions(db, TheProject(1).id) = {}
          /\ loc[1].summary # NotInvoked
          /\ \A i \in DOMAIN db.sessions :
                 db.sessions[i].id = TheSession(1).id
                 => /\ db.sessions[i].ended_at # NULL
                    /\ db.sessions[i].summary = loc[1].summary
    /\ (Done("start") /\ loc[1].result.kind = "started")
       => \A i \in DOMAIN pre.sessions :
              pre.sessions[i].ended_at # NULL
              => /\ db.sessions[i] = pre.sessions[i]
                 /\ TheSession(1).id # pre.sessions[i].id

\* a start has created a session on a project whose earlier session was ended
C10_Witness ==
    /\ Done("start") /\ loc[1].result.kind = "started"
    /\ EndedSessions(pre, TheProject(1).id) # {}
    /\ OpenSessions(db, TheProject(1).id) = {TheSession(1).id}

\* C11: a session is mutated once.  A session whose ended_at is set keeps its
\* row (ended_at and summary) in every later step, an end_session call with
\* its id included.
C11_EndedSessionImmutable ==
    [][\A i \in DOMAIN db.sessions :
           db.sessions[i].ended_at # NULL
           => (i \in DOMAIN db'.sessions /\ db'.sessions[i] = db.sessions[i])]_vars

\* the text the note command stores: the CLI joins its arguments, the MCP
\* handler strips the text
StoredNoteText ==
    IF loc[1].fe = "mcp" /\ loc[1].text = " " THEN "" ELSE loc[1].text

\* C12: a note on a tracked project that returns "note added" has appended
\* exactly one note, attached to the project's active session.  On an Idle
\* project it has created one session first, which is afterwards the only
\* active session of the project and holds the note; on an Active project it
\* has created no session and the note is on the session that was active.
\* Captures are untouched, and the only other outcome is a storage failure.
C12_NoteGoesToActiveSession ==
    /\ (Done("note") /\ loc[1].project # {})
       => /\ loc[1].result.kind \in {"note_added", "crash", "error"}
          /\ loc[1].result.kind # "note_added" => loc[1].result.err = "StorageError"
    /\ (Done("note") /\ loc[1].result.kind = "note_added")
       => LET id == TheProject(1).id
              note == db.notes[Len(db.notes)]
          IN /\ OneRowAdded(pre.notes, db.notes)
             /\ note.content = StoredNoteText
             /\ OpenSessions(db, id) = {note.session_id}
             /\ db.captures = pre.captures
             /\ IF OpenSessions(pre, id) = {}
                THEN /\ OneRowAdded(pre.sessions, db.sessions)
                     /\ db.sessions[Len(db.sessions)].id = note.session_id
                     /\ db.sessions[Len(db.sessions)].project_id = id
                ELSE /\ db.sessions = pre.sessions
                     /\ OpenSessions(pre, id) = {note.session_id}

\* a note has started a session on an Idle project that had an ended session
C12_Witness ==
    /\ Done("note") /\ loc[1].result.kind = "note_added"
    /\ OpenSessions(pre, TheProject(1).id) = {}
    /\ EndedSessions(pre, TheProject(1).id) # {}
    /\ Len(db.sessions) = Len(pre.sessions) + 1

\* the invocation p takes the step
Moved(p) == pc'[p] # pc[p] \/ loc'[p] # loc[p]

\* the commands that only read
ReadOnlyCmds == {"status", "resume", "history", "list", "summary"}

\* C13: status, resume, history, list and the mid-session summary leave the
\* persisted state unchanged: no step of such an invocation, in any state of
\* the interleaved runs, changes a row of projects, sessions, captures or
\* notes (so an active session stays active across them).
C13_ReadOnlyCommands ==
    [][\A p \in Procs :
           (Moved(p) /\ (loc[p].cmd \in ReadOnlyCmds \/ loc'[p].cmd \in ReadOnlyCmds))
           => db' = db]_vars

\* a status has reported the active session of a project, which is still
\* active
C13_Witness ==
    \E p \in Procs :
        /\ pc[p] = "done" /\ loc[p].cmd = "status"
        /\ loc[p].result.kind = "status_active"
        /\ TheSession(p).id \in OpenSessions(db, TheProject(p).id)

\* the lengths of the prefixes of a path that are paths of projects
TrackedPrefixes(d, path) ==
    {k \in 0..Len(path) : \E i \in DOMAIN d.projects : d.projects[i].path = SubSeq(path, 1, k)}

\* the longest of them
Nearest(d, path) == CHOOSE k \in TrackedPrefixes(d, path) : \A j \in TrackedPrefixes(d, path) : j <= k

\* C14: find_project_root(P) returns the project whose path is P when there
\* is one, otherwise the project of the closest tracked ancestor (the
\* longest tracked prefix of P), and nothing when no prefix is tracked; the
\* ancestor flag of the CLI is true exactly when the returned project's
\* path is not P.
C14_NearestTrackedWins ==
    pc[1] # "resolve" =>
        IF TrackedPrefixes(db, loc[1].path) = {}
        THEN /\ pc[1] = "done"
             /\ loc[1].result.kind = "not_initialized"
             /\ loc[1].project = {}
        ELSE /\ pc[1] = (IF loc[1].cmd = "status" THEN "report" ELSE "check")
             /\ \E r \in Range(db.projects) :
                    /\ loc[1].project = {r}
                    /\ r.path = SubSeq(loc[1].path, 1, Nearest(db, loc[1].path))
                    /\ loc[1].fe = "cli" => (loc[1].is_child <=> r.path # loc[1].path)

\* resolved from an untracked directory with two tracked ancestors
C14_Witness ==
    /\ pc[1] = "check"
    /\ loc[1].is_child
    /\ Len(loc[1].path) \notin TrackedPrefixes(db, loc[1].path)
    /\ Cardinality(TrackedPrefixes(db, loc[1].path)) >= 2

\* the commands that need a project and do not create one
ProjectCmds == {"start", "end", "note", "status", "resume", "summary"}

KeepsRows(c, d) == Len(d) >= Len(c) /\ SubSeq(d, 1, Len(c)) = c

\* C16: captures and notes are append-only: no step of any interleaving of
\* the commands removes a stored capture or note or changes its session id,
\* kind, content, structured content or timestamp; the tables only grow.
C16_AppendOnly ==
    [][KeepsRows(db.captures, db'.captures) /\ KeepsRows(db.notes, db'.notes)]_vars

\* a capture and a note of a session that has since been ended
C16_Witness ==
    \E i \in DOMAIN db.captures, j \in DOMAIN db.notes, k \in DOMAIN db.sessions :
        /\ db.notes[j].session_id = db.sessions[k].id
        /\ db.captures[i].session_id = db.sessions[k].id
        /\ db.sessions[k].ended_at # NULL

\* the captures of a session, in the order they were stored
SessionCaptures(d, session_id) ==
    SelectSeq(d.captures, LAMBDA c : c.session_id = session_id)

\* their kinds
SessionKinds(d, session_id) ==
    [i \in DOMAIN SessionCaptures(d, session_id) |->
        SessionCaptures(d, session_id)[i].capture_type]

\* C17: for a version-controlled project, with the commands run one at a
\* time: a start that opens a session leaves it with exactly one capture, of
\* kind git_start; no command other than start and end stores a capture
\* (notes in between add none); and the end that closes the session appends
\* exactly one capture, of kind git_end.  So a session opened by start and
\* closed by one end has exactly two captures when it is ended, git_start
\* stored first and git_end second.
C17_StartAndEndCaptures ==
    /\ (Done("start") /\ loc[1].result.kind = "started"
        /\ UnderVersionControl(TheProject(1).path))
       => SessionKinds(db, TheSession(1).id) = <<"git_start">>
    /\ loc[1].cmd \notin {"start", "end"} => db.captures = pre.captures
    /\ (Done("end") /\ loc[1].result.kind = "ended"
        /\ UnderVersionControl(TheProject(1).path))
       => /\ OneRowAdded(pre.captures, db.captures)
          /\ SessionKinds(db, TheSession(1).id)
                 = Append(SessionKinds(pre, TheSession(1).id), "git_end")
          /\ SessionKinds(pre, TheSession(1).id) = <<"git_start">>
             => LET c == SessionCaptures(db, TheSession(1).id)
                IN /\ Len(c) = 2
                   /\ c[1].capture_type = "git_start" /\ c[2].capture_type = "git_end"
                   /\ c[1].id < c[2].id /\ c[1].timestamp <= c[2].timestamp

\* an end has closed a session that start had opened: two captures
C17_Witness ==
    /\ Done("end") /\ loc[1].result.kind = "ended"
    /\ UnderVersionControl(TheProject(1).path)
    /\ SessionKinds(pre, TheSession(1).id) = <<"git_start">>
    /\ SessionKinds(db, TheSession(1).id) = <<"git_start", "git_end">>
    /\ \E i \in DOMAIN db.sessions :
           db.sessions[i].id = TheSession(1).id /\ db.sessions[i].ended_at # NULL

\* C18: every session ended through end has a non-empty summary, whichever
\* path of the summarizer produced it: after an end that returns "ended",
\* the summary stored with the session is neither unset nor the empty text.
C18_EndedSummaryNonEmpty ==
    (Done("end") /\ loc[1].result.kind = "ended")
    => \A i \in DOMAIN db.sessions :
           db.sessions[i].id = TheSession(1).id
           => /\ db.sessions[i].ended_at # NULL
              /\ db.sessions[i].summary # NullText
              /\ db.sessions[i].summary # EmptyText

\* the summary stored with a session
StoredSummary(d, session_id) ==
    {d.sessions[i].summary : i \in {j \in DOMAIN d.sessions :
        d.sessions[j].id = session_id /\ d.sessions[j].ended_at # NULL}}

\* C19: summarize_session never surfaces that the backend is unavailable.
\* When the library is missing, the availability check fails, or generate
\* raises after the check passed, the call returns the fallback summary of
\* its arguments (it neither raises nor returns None), and the end that
\* called it goes on to end the session with that summary; only a storage
\* failure at end_session can still stop it.
C19_BackendFailureGivesFallback ==
    loc[1].backend \in {"missing", "down", "raises"} =>
        /\ loc[1].summary = FallbackSummary(loc[1].git_context, loc[1].notes,
                                            loc[1].captures, TheProject(1).name)
        /\ loc[1].summary \notin {NullText, NotInvoked, EmptyText}
        /\ pc[1] \in {"es_now", "es_update", "done"}
        /\ Done("summary") => loc[1].result.kind = "summary"
        /\ Done("end") =>
              IF loc[1].result.kind = "ended"
              THEN StoredSummary(db, TheSession(1).id) = {loc[1].summary}
              ELSE /\ loc[1].result.err = "StorageError"
                   /\ loc[1].result.at = "es_update"

\* generate raised during an end, and the session is ended with the fallback
C19_Witness ==
    /\ Done("end") /\ loc[1].result.kind = "ended"
    /\ loc[1].backend = "raises"
    /\ loc[1].notes # <<>>
    /\ StoredSummary(db, TheSession(1).id)
           = {FallbackSummary(loc[1].git_context, loc[1].notes, loc[1].captures,
                              TheProject(1).name)}

\* commits were recorded in the snapshot the version-control text came from
CommitActivity(arg) == \E c \in arg.ctx : c.recent_commits # <<>>

\* C20: the fallback summary is a function of the project name, the first
\* three notes and whether commit activity occurred: two calls that agree on
\* these three return the same text, whatever the captures, the notes after
\* the third and the rest of the version-control text (branch, files) are.
C20_FallbackDependsOnlyOnSignal ==
    [][(/\ ret.op = "_fallback_summary" /\ ret'.op = "_fallback_summary"
        /\ ret.arg.project_name = ret'.arg.project_name
        /\ FirstN(ret.arg.notes, 3) = FirstN(ret'.arg.notes, 3)
        /\ CommitActivity(ret.arg) = CommitActivity(ret'.arg))
       => ret'.outcome = ret.outcome]_vars

\* C21: the backend's availability is evaluated again at every call of
\* summarize_session on one summarizer object: a call takes the backend path
\* exactly when, at that call, the library is loaded or can be imported and
\* the server answers, whatever the call before did; a failed client load is
\* not kept as the answer.
C21_AvailabilityPerCall ==
    ret.op = "summarize_session" =>
        /\ ret.outcome.path = "backend"
              <=> /\ ret.arg._client = "ollama" \/ ret.arg.library
                  /\ ret.arg.server = "running"
        /\ ret.outcome.path = "fallback"
              => ret.outcome.text = FallbackSummary(EmptyText, ret.arg.notes, <<>>,
                                                    ret.arg.project_name)
        /\ ret.outcome.path = "backend" => ret.outcome.text \in BackendResponses
        /\ ret.arg._client \in {"None", "ollama"}

\* the call before failed to load the client and fell back; this one, with
\* the library importable and the server running, takes the backend path
C21_Witness ==
    /\ ret.op = "summarize_session"
    /\ ret.arg.previous = "fallback" /\ ret.arg._client = "None"
    /\ ret.outcome.path = "backend"

\* C22: an end invocation on a project with an active session always
\* eventually completes, even when the generative backend accepts the
\* request and never answers.
C22_EndCompletes ==
    (loc[1].cmd = "end" /\ pc[1] = "check" /\ OpenSessions(db, TheProject(1).id) # {})
        ~> (pc[1] = "done")

\* the authored dates of a history do not increase from the newest commit on
NonIncreasing(history) ==
    \A i, j \in DOMAIN history : i <= j => history[i].date >= history[j].date

\* the commits of a list authored at or after since
AtOrAfter(commits, since) ==
    SelectSeq(commits, LAMBDA c : since = NULL \/ c.date >= since)

\* C23: for a newest-first history with non-increasing authored times and no
\* read error, get_recent_commits(limit, since) returns, newest first,
\* exactly the commits among the newest `limit` that were authored at or
\* after `since` (all of the newest `limit` without since).
C23_RecentCommitsSince ==
    (ret.op = "get_recent_commits" /\ ret.arg.fail_at = 0 /\ NonIncreasing(ret.arg.history))
    => ret.outcome = AtOrAfter(SubSeq(ret.arg.history, 1,
                                      IF Len(ret.arg.history) < ret.arg.limit
                                      THEN Len(ret.arg.history) ELSE ret.arg.limit),
                               ret.arg.since)

\* commits at T3 > T2 > T1 and since = T2: the commits at T3 and T2 come back
C23_Witness ==
    /\ ret.op = "get_recent_commits" /\ ret.arg.fail_at = 0
    /\ ret.arg.limit = LimitDefault /\ ret.arg.since = 2
    /\ Len(ret.arg.history) = 3
    /\ ret.arg.history[1].date = 3 /\ ret.arg.history[2].date = 2
    /\ ret.arg.history[3].date = 1
    /\ ret.outcome = SubSeq(ret.arg.history, 1, 2)

\* the read error of a call was raised: the iteration came to the commit
\* whose reading fails
Raised(arg) ==
    /\ arg.fail_at # 0
    /\ arg.fail_at <= arg.limit /\ arg.fail_at <= Len(arg.history)
    /\ \A i \in 1..(arg.fail_at - 1) : arg.since = NULL \/ arg.history[i].date >= arg.since

\* C24: when reading the commit history raises at any point of the
\* iteration, also after some commits have been read, get_recent_commits
\* returns the empty list, and capture still returns a snapshot, with its
\* branch, file lists and uncommitted flag and with no commits.
C24_ReadErrorGivesEmptyList ==
    /\ (ret.op = "get_recent_commits" /\ Raised(ret.arg)) => ret.outcome = <<>>
    /\ (ret.op = "capture" /\ Raised(ret.arg))
       => /\ ret.outcome.recent_commits = <<>>
          /\ ret.outcome.branch = RepoBranch
          /\ ret.outcome.modified_files = RepoModified
          /\ ret.outcome.staged_files = RepoStaged
          /\ ret.outcome.untracked_files = RepoUntracked

\* the places of the 'and N more' markers in a summary text
Markers(text) == {i \in DOMAIN text : text[i] = "\n  ... and "}

\* the numbers of entries a summary leaves out when it shows at most 5
\* commits and at most 10 entries of each file list
Omitted(ctx) ==
    <<Len(ctx.recent_commits) - 5, Len(ctx.modified_files) - 10,
      Len(ctx.staged_files) - 10, Len(ctx.untracked_files) - 10>>

\* C25: the summary of a snapshot shows at most 5 commits and at most 10
\* entries of each file list, and for every list that is cut it has an
\* 'and N more' marker with N the number of entries omitted: as many
\* markers as lists over their cap, each with the N of such a list.
C25_TruncationKeepsCounts ==
    ret.op = "to_summary" =>
        /\ Cardinality(Markers(ret.outcome))
               = Cardinality({k \in 1..4 : Omitted(ret.arg)[k] > 0})
        /\ \A i \in Markers(ret.outcome) :
               \E k \in 1..4 : /\ Omitted(ret.arg)[k] > 0
                               /\ ret.outcome[i + 1] = ToString(Omitted(ret.arg)[k])

ExactlyOnce(rows, S) ==
    /\ Range(rows) = S
    /\ \A i, j \in DOMAIN rows : rows[i] = rows[j] => i = j

\* C27: get_session_notes(s) and get_session_captures(s) return exactly the
\* notes, respectively the captures, stored with session id s, each once and
\* none of another session, with timestamps that do not decrease.
C27_SessionRowsOldestFirst ==
    /\ ret.op = "get_session_notes"
       => /\ ExactlyOnce(ret.outcome, {db.notes[i] : i \in {j \in DOMAIN db.notes :
                                          db.notes[j].session_id = ret.arg[1]}})
          /\ \A i, j \in DOMAIN ret.outcome :
                 i < j => ret.outcome[i].timestamp <= ret.outcome[j].timestamp
    /\ ret.op = "get_session_captures"
       => /\ ExactlyOnce(ret.outcome, {db.captures[i] : i \in {j \in DOMAIN db.captures :
                                          db.captures[j].session_id = ret.arg[1]}})
          /\ \A i, j \in DOMAIN ret.outcome :
                 i < j => ret.outcome[i].timestamp <= ret.outcome[j].timestamp

\* the notes of a session come back in another order than they were stored
\* in, while another session has a note too
C27_Witness ==
    /\ ret.op = "get_session_notes"
    /\ Len(ret.outcome) = 2
    /\ ret.outcome[1].id > ret.outcome[2].id
    /\ Len(db.notes) = 3

\* the sessions of a project
SessionsOf(d, project_id) ==
    {d.sessions[i].id : i \in {j \in DOMAIN d.sessions : d.sessions[j].project_id = project_id}}

\* the notes of the sessions of a project
NotesOf(d, project_id) ==
    {d.notes[i] : i \in {j \in DOMAIN d.notes :
        d.notes[j].session_id \in SessionsOf(d, project_id)}}

\* C28: get_recent_notes(project, limit) returns min(limit, total) notes of
\* the sessions of the project, active and ended, each once, newest first,
\* none of them older than a note of the project that is left out, and never
\* a note of a session of another project.
C28_RecentNotesNewestFirst ==
    ret.op = "get_recent_notes" =>
        LET mine == NotesOf(db, ret.arg[1])
            got == Range(ret.outcome)
        IN /\ Len(ret.outcome) = (IF Cardinality(mine) < ret.arg[2]
                                  THEN Cardinality(mine) ELSE ret.arg[2])
           /\ Cardinality(got) = Len(ret.outcome)
           /\ got \subseteq mine
           /\ \A i, j \in DOMAIN ret.outcome :
                  i < j => ret.outcome[i].timestamp >= ret.outcome[j].timestamp
           /\ \A n \in mine \ got : \A r \in got : n.timestamp <= r.timestamp

\* limit 1 on a project with an older note in its ended session and a newer
\* one in its active session, while the newest note of the store belongs to
\* the other project
C28_Witness ==
    /\ ret.op = "get_recent_notes" /\ ret.arg[2] = 1
    /\ Len(ret.outcome) = 1
    /\ ret.outcome[1].session_id # 1
    /\ \E n \in NotesOf(db, ret.arg[1]) :
           n.session_id = 1 /\ n.timestamp < ret.outcome[1].timestamp
    /\ \E i \in DOMAIN db.notes :
           /\ db.notes[i] \notin NotesOf(db, ret.arg[1])
           /\ db.notes[i].timestamp > ret.outcome[1].timestamp

\* the project of a session
ProjectOf(d, session_id) ==
    CHOOSE id \in ProjectIds(d) : session_id \in SessionsOf(d, id)

\* C29: get_active_session(project) returns nothing exactly when the project
\* has no session with ended_at unset; right after a create_session it
\* returns the session just created, and right after an end_session on a
\* session it returns nothing for that session's project.
C29_ActiveSessionIsTheOneCreated ==
    /\ \A id \in ProjectIds(db) :
           ActiveSessions(db, id) = {} <=> OpenSessions(db, id) = {}
    /\ (ret.op = "create_session" /\ ret.outcome = "ok")
       => \A s \in ActiveSessions(db, ret.arg[1]) : s.id = Len(db.sessions)
    /\ (ret.op = "end_session" /\ ret.outcome = "ok")
       => ActiveSessions(db, ProjectOf(db, ret.arg[1])) = {}

\* id, name and path of the project rows, in the order they were created
Identities(d) ==
    [i \in DOMAIN d.projects |->
        <<d.projects[i].id, d.projects[i].name, d.projects[i].path>>]

\* C30: the projects of the store are those of the successful create_project
\* calls.  A successful call adds one row, which get_project_by_path then
\* returns for its path; no other step adds, removes or renames a project;
\* get_project_by_path returns nothing for a path never created, and
\* list_projects returns every project exactly once.
C30_ProjectsAreTheCreatedOnes ==
    [][/\ IF ret'.op = "create_project" /\ ret'.outcome = "ok"
          THEN /\ Len(db'.projects) = Len(db.projects) + 1
               /\ Identities(db) = SubSeq(Identities(db'), 1, Len(db.projects))
               /\ GetProjectByPath(db', ret'.arg) = {db'.projects[Len(db'.projects)]}
               /\ GetProjectByPath(db, ret'.arg) = {}
          ELSE Identities(db') = Identities(db)
       /\ \A path \in Dirs :
              GetProjectByPath(db', path)
                  = {db'.projects[i] : i \in {j \in DOMAIN db'.projects :
                                                db'.projects[j].path = path}}
       /\ \A path \in Dirs : Cardinality(GetProjectByPath(db', path)) <= 1
       /\ ExactlyOnce(ListProjects(db'), Range(db'.projects))]_vars

\* a second project has been created after a session of the first, and one
\* path of the model was never created
C30_Witness ==
    /\ ret.op = "create_project" /\ ret.outcome = "ok"
    /\ Len(db.projects) = 2 /\ Len(db.sessions) >= 1
    /\ Len(ListProjects(db)) = 2
    /\ GetProjectByPath(db, ret.arg) # {}

\* the session of the invocation has ended_at set in d
EndedIn(d, session_id) ==
    \E i \in DOMAIN d.sessions :
        d.sessions[i].id = session_id /\ d.sessions[i].ended_at # NULL

\* C32: in an end invocation of either front end, the end capture is stored
\* before the session's captures are gathered, the summarizer runs after the
\* gathering and end_session after the summarizer: once the invocation has
\* stored its end capture and reached the summarizer, the captures it hands
\* over are all the captures of the session, the last of them the end capture
\* just stored; and the session is ended only with a summary the summarizer
\* returned.
C32_EndCaptureIsHandedOver ==
    /\ (/\ loc[1].cmd = "end" /\ loc[1].session # {}
        /\ pc[1] \in {"summarize", "generate", "es_now", "es_update", "done"}
        /\ OneRowAdded(pre.captures, db.captures))
       => LET stored == SessionCaptures(db, TheSession(1).id)
          IN /\ Len(loc[1].captures) = Len(stored)
             /\ stored[Len(stored)].capture_type = "git_end"
             /\ loc[1].captures[Len(stored)] = stored[Len(stored)].content
    /\ (/\ loc[1].cmd = "end" /\ loc[1].session # {}
        /\ EndedIn(db, TheSession(1).id) /\ ~EndedIn(pre, TheSession(1).id))
       => loc[1].summary # NotInvoked

\* C33: in the interleaved runs, no step moves a project's last_active
\* backwards, and after every step the last_active of a project is not
\* earlier than the started_at of any of its sessions.
C33_LastActiveNeverBehind ==
    [][/\ \A j \in DOMAIN db.projects :
              db'.projects[j].last_active >= db.projects[j].last_active
       /\ \A j \in DOMAIN db'.projects, i \in DOMAIN db'.sessions :
              db'.sessions[i].project_id = db'.projects[j].id
              => db'.projects[j].last_active >= db'.sessions[i].started_at]_vars

\* C34: in the interleaved runs, every step that stores a note stores it
\* with a session whose ended_at is unset at that moment: no note is attached
\* to a session that has already been ended.
C34_NoNoteOnEndedSession ==
    [][\A i \in DOMAIN db'.notes :
           i \notin DOMAIN db.notes => ~EndedIn(db, db'.notes[i].session_id)]_vars

\* the invocation p of note or start holds a session of its project: the one
\* get_active_session gave it or the one it created
Holds(p) ==
    /\ loc[p].cmd \in {"note", "start"}
    /\ loc[p].session # {}

\* C36: when a note invocation interleaves with another note or with a start
\* on the same project, the two never hold two different sessions that both
\* have ended_at unset: the session is started once and both invocations
\* (and the notes they write) use that one session.
C36_ImplicitStartOnce ==
    \A p, q \in Procs :
        (/\ p # q /\ loc[p].cmd = "note" /\ Holds(p) /\ Holds(q)
         /\ TheProject(p).id = TheProject(q).id
         /\ {TheSession(p).id, TheSession(q).id}
                \subseteq OpenSessions(db, TheProject(p).id))
        => TheSession(p).id = TheSession(q).id

\* the end captures stored with a session
EndCaptures(d, session_id) ==
    {i \in DOMAIN d.captures :
        d.captures[i].session_id = session_id /\ d.captures[i].capture_type = "git_end"}

\* C35: in the interleaved runs on a project with an active session (two
\* end invocations at once, or an end that stops after add_capture followed
\* by another end), after every step each session has at most one capture of
\* kind git_end, and no step writes ended_at or summary of a session that an
\* earlier end has already ended.
C35_OneEndPerSession ==
    [][/\ \A i \in DOMAIN db'.sessions :
              Cardinality(EndCaptures(db', db'.sessions[i].id)) <= 1
       /\ \A i \in DOMAIN db.sessions :
              db.sessions[i].ended_at # NULL
              => /\ db'.sessions[i].ended_at = db.sessions[i].ended_at
                 /\ db'.sessions[i].summary = db.sessions[i].summary]_vars

\* the ids of the sessions d holds
SessionIds(d) == {d.sessions[i].id : i \in DOMAIN d.sessions}

\* C37: with the commands run one at a time, a note that starts a session on
\* a version-controlled project starts it as start does: when the note
\* returns, the session it created has its start capture (exactly one
\* capture, of kind git_start).
C37_ImplicitStartHasStartCapture ==
    (/\ Done("note") /\ loc[1].result.kind = "note_added"
     /\ loc[1].session # {}
     /\ TheSession(1).id \notin SessionIds(pre)
     /\ UnderVersionControl(TheProject(1).path))
    => SessionKinds(db, TheSession(1).id) = <<"git_start">>

\* C38: with the commands run one at a time, while the session that a start
\* or note invoked from path P created is open, every status, note and end
\* invoked from P that returns normally reaches that session, whatever was
\* invoked in between (an init on P included).
C38_ResolutionStableWhileOpen ==
    (/\ ret.op = "opened"
     /\ pc[1] = "done" /\ loc[1].cmd \in {"status", "note", "end"}
     /\ loc[1].path = ret.arg
     /\ ~EndedIn(pre, ret.outcome)
     /\ loc[1].result.kind \notin {"crash", "error", "note_text_required"})
    => (loc[1].session # {} /\ TheSession(1).id = ret.outcome)

\* the dict has a member with the key
HasMember(object, key) == \E j \in DOMAIN object : object[j][1] = key

\* C31: whenever call_tool has been called for a tools/call request and is
\* over, it has returned a dict (no exception left it) that has a "success"
\* member and either an "error" member or a payload member; for a name that
\* is none of the seven tools the dict carries the unknown-tool error and the
\* database is as it was before the call.
C31_CallToolAnswersStructured ==
    (/\ ret.op = "run_stdio" /\ ret.arg.method = "tools/call" /\ ret.arg.params_ok
     /\ ret.outcome.tool # "running")
    => /\ ret.outcome.tool = "returned"
       /\ HasMember(ret.outcome.dict, "success")
       /\ \/ HasMember(ret.outcome.dict, "error")
          \/ \E j \in DOMAIN ret.outcome.dict :
                 ret.outcome.dict[j][1] \notin {"success", "error"}
       /\ ret.arg.name \notin Tools
          => (/\ HasMember(ret.outcome.dict, "error")
              /\ Member(ret.outcome.dict, "error") = "Unknown tool"
              /\ db = pre)

\* a request the loop can serve: a JSON object whose params and arguments
\* are objects and whose path is a string
WellFormed(line) ==
    line.kind = "request" /\ line.params_ok /\ line.arguments_ok /\ line.path_ok

\* C39: the request loop never stops on a line; and once a line has been
\* served, a line that is not JSON has no response, a well-formed request has
\* exactly one response, with its own id, and every error response printed
\* for the line carries the id of that line's request.
C39_LoopAnswersEachRequest ==
    ret.op = "run_stdio"
    => /\ ~ret.outcome.stopped
       /\ (ret.arg.kind # "none" /\ ret.outcome.tool # "running")
          => /\ ret.arg.kind = "not_json" => ret.outcome.printed = <<>>
             /\ WellFormed(ret.arg)
                => /\ Len(ret.outcome.printed) = 1
                   /\ ret.outcome.printed[1].id = ret.arg.id
             /\ \A i \in DOMAIN ret.outcome.printed :
                    ret.outcome.printed[i].kind = "error"
                    => (ret.arg.kind = "request" /\ ret.outcome.printed[i].id = ret.arg.id)

====
